---- MODULE Spec2Model ----
(***************************************************************************)
(* Measurement pipeline of mj-the-estimator (backend/services):            *)
(*   measurement_processor.py  format detection, extractors, deduplicator  *)
(*   room_calculator.py        opening estimator, room calculator,         *)
(*                             structure transformer, calculation engine   *)
(*   ai_service.py             parse_measurement_data (worker + timeout)   *)
(*   pdf_parser_service.py     extract_room_measurements (PDF text)        *)
(*                                                                         *)
(* Numbers.  The code computes with Python floats.  Every length the       *)
(* model feeds in has at most one decimal, so lengths, widths, heights and *)
(* perimeters are integers counted in TENTHS of a foot and areas are       *)
(* integers counted in HUNDREDTHS of a square foot (tenths x tenths).      *)
(* round(x, 2) of such a product is exact.  Every field of an output       *)
(* "measurements" record is in hundredths (8.0 ft = 800, 43.48 = 4348).    *)
(*                                                                         *)
(* Python values.  A dict entry is a tagged value: a number, a falsy       *)
(* non-number (None, ""), a truthy non-number ("abc") or a missing key.    *)
(***************************************************************************)
EXTENDS Integers, Sequences, FiniteSets, TLC

VARIABLES
    cRoom,      \* calculator: the room_data dict handed to the calls
    cOut,       \* calculator: the values returned by the calls so far
    cpc,        \* calculator: position of the calling code
    dCands,     \* CSV extractor: confirmed_rooms, the candidates to parse
    dRooms,     \* CSV extractor: rooms as parsed, the deduplicator's argument
    dFinal,     \* CSV extractor: final_rooms, the deduplicator's result
    dpc,        \* CSV extractor: position in _extract_room_data_batch
    raw_data,               \* pipeline: the text given to parse_measurement_data
    file_type,              \* pipeline: the file type given with it
    wpc,                    \* worker thread: position in process_with_timeout
    detected_format,        \* worker: what detect_format answered
    ambiguous_candidates,   \* worker: candidates left to the classifier
    ai_response,            \* worker: what the classifier call came back with
    intermediate_data,      \* worker: the rooms of intermediate_data
    final_structure,        \* worker: the local final_structure
    processing_result,      \* processing_result[0]; <<>> stands for None
    mpc,                    \* caller: position in parse_measurement_data
    returned,               \* caller: what the call did, a value or an exception
    confirmed_rooms,        \* worker: candidates confirmed by keyword or classifier
    processing_error,       \* processing_error[0] is set; FALSE stands for None
    caught,                 \* caller: the exception its except branch caught, "" for none
    progress,               \* progress_store[session_id]
    pText,      \* PDF parser: the lines of pdf_text
    pRooms,     \* PDF parser: what extract_room_measurements returned
    ppc,        \* PDF parser: position of the calling code
    tRooms,     \* transformer: the rooms_data list handed to it
    tOut,       \* transformer: the Locations it returned
    tpc,        \* transformer: position of the calling code
    eName,      \* opening estimator: the room_name handed to it
    eArea,      \* opening estimator: the room_area handed to it (hundredths)
    eOut,       \* opening estimator: the openings it returned
    epc         \* opening estimator: position of the calling code

calcVars == <<cRoom, cOut, cpc>>

dedupVars == <<dCands, dRooms, dFinal, dpc>>

pipeVars ==
    <<raw_data, file_type, wpc, detected_format, ambiguous_candidates,
      ai_response, intermediate_data, final_structure, processing_result,
      mpc, returned, confirmed_rooms, processing_error, caught, progress>>

pdfVars == <<pText, pRooms, ppc>>

transVars == <<tRooms, tOut, tpc>>

estVars == <<eName, eArea, eOut, epc>>

vars ==
    <<cRoom, cOut, cpc, dCands, dRooms, dFinal, dpc,
      raw_data, file_type, wpc, detected_format, ambiguous_candidates,
      ai_response, intermediate_data, final_structure, processing_result,
      mpc, returned, confirmed_rooms, processing_error, caught, progress,
      pText, pRooms, ppc, tRooms, tOut, tpc, eName, eArea, eOut, epc>>

----------------------------------------------------------------------------
(* Python values *)

Num(n) == [t |-> "num", v |-> n]

NoneV == [t |-> "none", v |-> 0]

StrV == [t |-> "str", v |-> 0]

Missing == [t |-> "missing", v |-> 0]

IsNum(x) == x.t = "num"

\* bool(x) as the `or` operator sees it
Truthy(x) == (x.t = "num" /\ x.v # 0) \/ x.t = "str"

\* d.get(key): a missing key reads as None
Get(x) == IF x.t = "missing" THEN NoneV ELSE x

\* d.get(key, default)
GetOr(x, default) == IF x.t = "missing" THEN default ELSE x

\* round(x / 9, 2) on hundredths: the nearest integer to x / 9 (never a tie)
RoundDiv9(x) == IF x >= 0 THEN (2 * x + 9) \div 18 ELSE 0 - ((2 * (0 - x) + 9) \div 18)

Max(a, b) == IF a >= b THEN a ELSE b

\* str(float) of a value in tenths, as the f-strings print it: 30 -> "3.0"
FmtFloat(t) == ToString(t \div 10) \o "." \o ToString(t % 10)

----------------------------------------------------------------------------
(* RoomCalculator *)

\* OPENING_TYPES: default width and height per type, in tenths
OPENING_TYPES ==
    [door      |-> [default_width |-> 30, default_height |-> 68],
     window    |-> [default_width |-> 40, default_height |-> 30],
     open_wall |-> [default_width |-> 60, default_height |-> 80]]

OpeningDefaults(opening_type) ==
    IF opening_type \in DOMAIN OPENING_TYPES
      THEN OPENING_TYPES[opening_type]
      ELSE OPENING_TYPES["door"]

\* float(x) succeeds on a number only (None: TypeError, "abc": ValueError)
FloatOk(x) == IsNum(x)

\* One pass of the loop over openings (lines 46-91).  acc carries
\* total_opening_area, adjusted_perimeter and processed_openings; an opening
\* whose width or height does not convert is skipped by the inner except.
ProcessOpening(acc, opening, height) ==
    LET opening_type == opening.type
        dflt == OpeningDefaults(opening_type)
        w == GetOr(opening.width, Num(dflt.default_width))
        h == GetOr(opening.height, Num(dflt.default_height))
    IN  IF ~(FloatOk(w) /\ FloatOk(h)) THEN acc
        ELSE IF opening_type = "open_wall"
          THEN [total_opening_area |-> acc.total_opening_area + w.v * height,
                adjusted_perimeter |-> acc.adjusted_perimeter - w.v,
                processed_openings |-> Append(acc.processed_openings,
                    [type |-> opening_type,
                     size |-> FmtFloat(w.v) \o "' wide opening"])]
          ELSE [total_opening_area |-> acc.total_opening_area + w.v * h.v,
                adjusted_perimeter |-> acc.adjusted_perimeter,
                processed_openings |-> Append(acc.processed_openings,
                    [type |-> opening_type,
                     size |-> FmtFloat(w.v) \o "' X " \o FmtFloat(h.v) \o "'"
                              \o (IF opening_type = "window" THEN " window" ELSE "")])]

RECURSIVE ProcessOpenings(_, _, _)
ProcessOpenings(acc, openings, height) ==
    IF openings = <<>> THEN acc
    ELSE ProcessOpenings(ProcessOpening(acc, Head(openings), height),
                         Tail(openings), height)

\* _get_fallback_room_measurements
FallbackRoomMeasurements(room_name) ==
    [name |-> room_name,
     measurements |->
        [height |-> 800,
         wall_area_sqft |-> 32000,
         ceiling_area_sqft |-> 10000,
         floor_area_sqft |-> 10000,
         walls_and_ceiling_area_sqft |-> 42000,
         flooring_area_sy |-> 1111,
         ceiling_perimeter_lf |-> 4000,
         floor_perimeter_lf |-> 4000,
         openings |-> <<>>]]

\* Whether the try block of calculate_room_measurements raises.  Every
\* value the block reads ends in an output field through arithmetic and
\* round(), so a non-number that is read raises before the return; a key
\* read with [] raises when it is missing.  length and width enter the
\* arithmetic only when area or perimeter is falsy.
CalcRaises(room_data) ==
    LET dims == room_data.raw_dimensions
        area == Get(dims.area)
        perimeter == Get(dims.perimeter)
    IN  \/ "raw_dimensions" \notin room_data.keys
        \/ "name" \notin room_data.keys
        \/ dims.length.t = "missing"
        \/ dims.width.t = "missing"
        \/ dims.height.t = "missing"
        \/ ~IsNum(dims.height)
        \/ (Truthy(area) /\ ~IsNum(area))
        \/ (Truthy(perimeter) /\ ~IsNum(perimeter))
        \/ ((~Truthy(area) \/ ~Truthy(perimeter))
              /\ ~(IsNum(dims.length) /\ IsNum(dims.width)))

\* (mutant) the wall area clamped at zero like the perimeter
WallArea_clamped(perimeter0, height, total_opening_area) ==
    Max(perimeter0 * height - total_opening_area, 0)

\* wall_area = perimeter * height (line 41), less the openings (line 93);
\* no clamp is applied
WallArea(perimeter0, height, total_opening_area) ==
    perimeter0 * height - total_opening_area

\* perimeter = max(adjusted_perimeter, 0) (line 96)
ClampPerimeter(adjusted_perimeter) == Max(adjusted_perimeter, 0)

\* (mutant) the floor perimeter leaves out a three-foot doorway
FloorPerimeterLf_lessDoorway(perimeter) == 10 * Max(perimeter - 30, 0)

\* "floor_perimeter_lf": round(perimeter, 2) (line 112), in hundredths
FloorPerimeterLf(perimeter) == 10 * perimeter

\* The try block of calculate_room_measurements when nothing raises
CalcBody(room_data) ==
    LET dims == room_data.raw_dimensions
        openings == IF "openings" \in room_data.keys THEN room_data.openings ELSE <<>>
        length == dims.length.v
        width == dims.width.v
        height == dims.height.v
        floor_area == IF Truthy(Get(dims.area)) THEN dims.area.v ELSE length * width
        ceiling_area == floor_area
        perimeter0 == IF Truthy(Get(dims.perimeter)) THEN dims.perimeter.v
                      ELSE 2 * (length + width)
        acc == ProcessOpenings([total_opening_area |-> 0,
                                adjusted_perimeter |-> perimeter0,
                                processed_openings |-> <<>>], openings, height)
        wall_area == WallArea(perimeter0, height, acc.total_opening_area)
        perimeter == ClampPerimeter(acc.adjusted_perimeter)
        walls_and_ceiling_area == wall_area + ceiling_area
    IN  [name |-> room_data.name,
         measurements |->
            [height |-> 10 * height,
             wall_area_sqft |-> wall_area,
             ceiling_area_sqft |-> ceiling_area,
             floor_area_sqft |-> floor_area,
             walls_and_ceiling_area_sqft |-> walls_and_ceiling_area,
             flooring_area_sy |-> RoundDiv9(floor_area),
             ceiling_perimeter_lf |-> 10 * perimeter,
             floor_perimeter_lf |-> FloorPerimeterLf(perimeter),
             openings |-> acc.processed_openings]]

\* room_data.get("name", "Unknown") of the except branch
NameOrUnknown(room_data) ==
    IF "name" \in room_data.keys THEN room_data.name ELSE "Unknown"

\* (mutant) the except branch logs and re-raises
CalcExceptBranch_reraise(room_data) ==
    [raised |-> TRUE,
     value |-> FallbackRoomMeasurements(NameOrUnknown(room_data))]

\* The except branch (lines 117-119): the exception is swallowed and the
\* canned room returned under the room's name
CalcExceptBranch(room_data) ==
    [raised |-> FALSE,
     value |-> FallbackRoomMeasurements(NameOrUnknown(room_data))]

\* calculate_room_measurements: what the call does to its caller, a return
\* value or (raised) an exception
calculate_room_measurements(room_data) ==
    IF CalcRaises(room_data)
      THEN CalcExceptBranch(room_data)
      ELSE [raised |-> FALSE, value |-> CalcBody(room_data)]

\* (mutant) the adjusted perimeter is stored back into the caller's dict
RoomDataAfterCalc_storesPerimeter(room_data) ==
    IF CalcRaises(room_data) THEN room_data
    ELSE [room_data EXCEPT !.raw_dimensions.perimeter =
            Num(CalcBody(room_data).measurements.floor_perimeter_lf \div 10)]

\* The room_data dict after a call: the function assigns to no key of it
RoomDataAfterCalc(room_data) == room_data

----------------------------------------------------------------------------
(* CSVTableProcessor: parsing of a candidate row and the deduplicator.     *)
(*                                                                         *)
(* Text.  A CSV row is held as its split parts: the first field (the raw   *)
(* name), what the second field converts to (a number in hundredths;       *)
(* NoneV when the field is empty or not made of digits, which the code     *)
(* reads as 0; StrV when float() rejects it, e.g. "1.2.3") and the numbers *)
(* re.findall finds in the first later field holding an "x" (tenths).      *)
(* What a regular expression or a keyword test answers on a name is        *)
(* tabulated per name of the bounded name set.                             *)

\* the first comma-separated field of the JSON line of the pipeline texts, and its str.title()
JsonFirstField == "{\"measurements\": [{\"room\": \"kitchen\""

JsonFirstFieldTitle == "{\"Measurements\": [{\"Room\": \"Kitchen\""

\* _clean_room_name: strip, drop a "room N:" prefix, str.title()
CleanRoomName(name) ==
    CASE name = "kitchen" -> "Kitchen"
      [] name = "living room" -> "Living Room"
      [] name = JsonFirstField -> JsonFirstFieldTitle
      [] OTHER -> name

\* re.search(pattern, name.lower()) for some pattern of skip_patterns
\* (lines 630-641), per cleaned name
MatchesSkipPattern(name) ==
    name \in {"Subtotal Living Area", "Total Area", "Room Attributes"}

\* the nearest integer to sqrt(num * a / den), by bisection on
\* den * (2n - 1)^2 <= 4 * num * a
RECURSIVE RoundSqrtBetween(_, _, _, _, _)
RoundSqrtBetween(num, den, a, lo, hi) ==
    IF lo = hi THEN lo
    ELSE LET mid == (lo + hi + 1) \div 2
         IN  IF den * (2 * mid - 1) * (2 * mid - 1) <= 4 * num * a
               THEN RoundSqrtBetween(num, den, a, mid, hi)
               ELSE RoundSqrtBetween(num, den, a, lo, mid - 1)

\* width = (area / 1.2) ** 0.5, rounded to one decimal: tenths from hundredths
EstimateWidth(area) == RoundSqrtBetween(5, 6, area, 0, area)

\* length = area / width = (1.2 * area) ** 0.5, rounded to one decimal
EstimateLength(area) == RoundSqrtBetween(6, 5, area, 0, area + 1)

\* _parse_room_line(parts, current_floor): <<room>>, or <<>> for None (the
\* except branch, when float() rejects the area field)
ParseRoomLine(parts, current_floor) ==
    IF parts.area.t = "str" THEN <<>>
    ELSE
    LET room_name == CleanRoomName(parts.name)
        area0 == IF parts.area.t = "num" THEN parts.area.v ELSE 0
        has_dims == Len(parts.dim) >= 2
        length0 == IF has_dims THEN parts.dim[1] ELSE 0
        width0 == IF has_dims THEN parts.dim[2] ELSE 0
        height0 == IF Len(parts.dim) >= 3 THEN parts.dim[3] ELSE 0
        estimate == area0 > 0 /\ (length0 = 0 \/ width0 = 0)
        from_dims == ~estimate /\ area0 = 0 /\ length0 # 0 /\ width0 # 0
        length1 == IF estimate THEN EstimateLength(area0) ELSE length0
        width1 == IF estimate THEN EstimateWidth(area0) ELSE width0
        area1 == IF from_dims THEN length0 * width0 ELSE area0
        \* "not length or not width" is asked of the unrounded estimate,
        \* which is positive whenever the area is
        defaults == ~estimate /\ (length0 = 0 \/ width0 = 0)
        length == IF defaults THEN 100 ELSE length1
        width == IF defaults THEN 100 ELSE width1
        area == IF defaults THEN 10000 ELSE area1
        height == IF height0 = 0 THEN 80 ELSE height0
    IN  << [id |-> 0,
            floor |-> IF current_floor = "" THEN "1st Floor" ELSE current_floor,
            name |-> room_name,
            base |-> room_name,
            raw_dimensions |->
                [length |-> Num(length), width |-> Num(width),
                 height |-> Num(height),
                 area |-> IF area # 0 THEN Num(area) ELSE NoneV,
                 perimeter |-> NoneV],
            openings |-> <<>>,
            keys |-> {"floor", "name", "raw_dimensions", "openings"}] >>

\* _get_fallback_rooms
FallbackRooms ==
    << [id |-> 0, floor |-> "1st Floor", name |-> "Living Room",
        base |-> "Living Room",
        raw_dimensions |-> [length |-> Num(150), width |-> Num(120),
            height |-> Num(80), area |-> Num(18000), perimeter |-> NoneV],
        openings |-> <<>>,
        keys |-> {"floor", "name", "raw_dimensions", "openings"}],
       [id |-> 0, floor |-> "1st Floor", name |-> "Kitchen", base |-> "Kitchen",
        raw_dimensions |-> [length |-> Num(120), width |-> Num(100),
            height |-> Num(80), area |-> Num(12000), perimeter |-> NoneV],
        openings |-> <<>>,
        keys |-> {"floor", "name", "raw_dimensions", "openings"}] >>

AbsDiff(a, b) == IF a >= b THEN a - b ELSE b - a

\* The pairs of one-decimal values (tenths) of the input sets that lie one
\* tenth apart and for which the float test abs(a - b) < 0.1 is true:
\* 10.1 - 10.0 = 0.0999999999999996
FloatGapBelowTenth == { {100, 101} }

\* abs(a - b) < 0.1 on lengths and widths
NearLength(a, b) ==
    \/ AbsDiff(a, b) < 1
    \/ (AbsDiff(a, b) = 1 /\ {a, b} \in FloatGapBelowTenth)

\* abs(a - b) < 0.1 on areas (hundredths); no two areas of the input sets
\* lie exactly 0.1 apart
NearArea(a, b) == AbsDiff(a, b) < 10

\* dims.get(key, 0) of a dimension the parser always sets to a number
DimOr0(x) == IF x.t = "num" THEN x.v ELSE 0

\* lines 625: area < 1 and length * width < 1
IsTinyRoom(room) ==
    /\ DimOr0(room.raw_dimensions.area) < 100
    /\ DimOr0(room.raw_dimensions.length) * DimOr0(room.raw_dimensions.width) < 100

\* lines 655-657
NearIdentical(room, existing_room) ==
    /\ NearLength(DimOr0(room.raw_dimensions.length),
                  DimOr0(existing_room.raw_dimensions.length))
    /\ NearLength(DimOr0(room.raw_dimensions.width),
                  DimOr0(existing_room.raw_dimensions.width))
    /\ NearArea(DimOr0(room.raw_dimensions.area),
                DimOr0(existing_room.raw_dimensions.area))

\* lines 663-664: length == 10.0 and width == 10.0 and height == 8.0
IsDummyPattern(room) ==
    /\ room.raw_dimensions.length = Num(100)
    /\ room.raw_dimensions.width = Num(100)
    /\ room.raw_dimensions.height = Num(80)

\* (mutant) only the room kept last is compared
IsExactDuplicate_lastOnly(room, valid_rooms) ==
    /\ valid_rooms # <<>>
    /\ valid_rooms[Len(valid_rooms)].floor = room.floor
    /\ valid_rooms[Len(valid_rooms)].name = room.name
    /\ (NearIdentical(room, valid_rooms[Len(valid_rooms)]) \/ IsDummyPattern(room))

\* The loop over valid_rooms (lines 647-667): the room is an exact duplicate
\* when an already kept room of the same floor and name is near-identical
\* to it, or when such a room exists and the room has the dummy dimensions
IsExactDuplicate(room, valid_rooms) ==
    \E k \in 1..Len(valid_rooms) :
        /\ valid_rooms[k].floor = room.floor
        /\ valid_rooms[k].name = room.name
        /\ (NearIdentical(room, valid_rooms[k]) \/ IsDummyPattern(room))

\* First pass (lines 614-670)
RECURSIVE FirstPass(_, _)
FirstPass(rooms, valid_rooms) ==
    IF rooms = <<>> THEN valid_rooms
    ELSE LET room == Head(rooms)
             keep == /\ ~IsTinyRoom(room)
                     /\ ~MatchesSkipPattern(room.name)
                     /\ ~IsExactDuplicate(room, valid_rooms)
         IN  FirstPass(Tail(rooms),
                       IF keep THEN Append(valid_rooms, room) ELSE valid_rooms)

\* key = f"{floor}:{name}" (line 680)
GroupKey(room) == room.floor \o ":" \o room.name

\* the keys of room_groups in insertion order
RECURSIVE GroupKeys(_, _)
GroupKeys(valid_rooms, seen) ==
    IF valid_rooms = <<>> THEN seen
    ELSE LET key == GroupKey(Head(valid_rooms))
         IN  GroupKeys(Tail(valid_rooms),
                IF \E k \in 1..Len(seen) : seen[k] = key
                  THEN seen ELSE Append(seen, key))

RoomsOfGroup(valid_rooms, key) ==
    SelectSeq(valid_rooms, LAMBDA room : GroupKey(room) = key)

\* (mutant) the first member of a group keeps its name
NumberGroup_fromSecond(rooms_in_group) ==
    [i \in 1..Len(rooms_in_group) |->
        IF i = 1 THEN rooms_in_group[i]
        ELSE [rooms_in_group[i] EXCEPT
                !.name = rooms_in_group[i].name \o " #" \o ToString(i)]]

\* lines 688-698: every member of a group of two or more is renamed
\* "<name> #<i>", i counting from 1; a single room is left as it is
NumberGroup(rooms_in_group) ==
    IF Len(rooms_in_group) > 1
      THEN [i \in 1..Len(rooms_in_group) |->
              [rooms_in_group[i] EXCEPT
                 !.name = rooms_in_group[i].name \o " #" \o ToString(i)]]
      ELSE rooms_in_group

\* Second pass (lines 673-698)
RECURSIVE SecondPass(_, _)
SecondPass(valid_rooms, keys) ==
    IF keys = <<>> THEN <<>>
    ELSE NumberGroup(RoomsOfGroup(valid_rooms, Head(keys)))
         \o SecondPass(valid_rooms, Tail(keys))

\* _deduplicate_and_filter_rooms
DeduplicateAndFilterRooms(rooms) ==
    IF rooms = <<>> THEN rooms
    ELSE LET valid_rooms == FirstPass(rooms, <<>>)
         IN  SecondPass(valid_rooms, GroupKeys(valid_rooms, <<>>))

\* Step 4 of _extract_room_data_batch (lines 259-266): parse the confirmed
\* candidates, then fall back to the canned rooms when none parsed
\* Every parsed room is tagged (id) with the line_index of its candidate; the
\* code reads no such key: the tag stands for the identity of the dict.
RECURSIVE ParseCandidates(_)
ParseCandidates(cands) ==
    IF cands = <<>> THEN <<>>
    ELSE LET parsed == ParseRoomLine(Head(cands).parts, Head(cands).floor)
         IN  [k \in 1..Len(parsed) |->
                [parsed[k] EXCEPT !.id = Head(cands).line_index]]
             \o ParseCandidates(Tail(cands))

ParsedOrFallback(cands) ==
    LET rooms == ParseCandidates(cands)
    IN  IF rooms = <<>> THEN FallbackRooms ELSE rooms

----------------------------------------------------------------------------
(* Calculator specification: the inputs are drawn from bounded sets and    *)
(* the function is called twice in a row on the same dict                  *)

MaxOpenings == 2

CalcOpenings ==
    { [type |-> "door", width |-> Num(30), height |-> Num(68)],
      [type |-> "window", width |-> Num(40), height |-> Num(35)],
      [type |-> "open_wall", width |-> Num(80), height |-> Num(80)],
      [type |-> "open_wall", width |-> Missing, height |-> Missing],
      [type |-> "door", width |-> StrV, height |-> Num(68)],
      [type |-> "skylight", width |-> Missing, height |-> Num(20)] }

RECURSIVE SeqsUpTo(_, _)
SeqsUpTo(S, n) ==
    IF n = 0 THEN { <<>> }
    ELSE LET shorter == SeqsUpTo(S, n - 1)
         IN  shorter \cup { Append(q, x) : q \in shorter, x \in S }

CalcDims ==
    [length : { Num(120), Num(20), Missing, StrV },
     width : { Num(100), Num(10) },
     height : { Num(80), NoneV },
     area : { Missing, Num(12000), Num(0), StrV },
     perimeter : { NoneV, Num(500) }]

CalcKeys ==
    { {"name", "raw_dimensions", "openings"},
      {"name", "raw_dimensions"},
      {"raw_dimensions", "openings"},
      {"name", "openings"} }

CalcRooms ==
    [name : { "Kitchen" }, keys : CalcKeys, raw_dimensions : CalcDims,
     openings : SeqsUpTo(CalcOpenings, MaxOpenings)]

CalcIdle ==
    /\ cRoom = [name |-> "", keys |-> {}, openings |-> <<>>,
                raw_dimensions |-> [length |-> Missing, width |-> Missing,
                    height |-> Missing, area |-> Missing, perimeter |-> Missing]]
    /\ cOut = <<>>
    /\ cpc = "idle"

DedupIdle ==
    /\ dCands = <<>>
    /\ dRooms = <<>>
    /\ dFinal = <<>>
    /\ dpc = "idle"

\* the classifier was not called: no candidate was ambiguous
NoAiCall == [kind |-> "not_called", answers |-> <<>>]

\* parse_measurement_data has not returned
NotReturned == [raised |-> FALSE, value |-> <<>>]

\* the entry _update_progress writes (stage and progress; the message and
\* the time stamp are left out)
Progress(stage, percent) == [stage |-> stage, progress |-> percent]

PipeIdle ==
    /\ raw_data = [body |-> <<>>, pad |-> FALSE]
    /\ file_type = ""
    /\ wpc = "idle"
    /\ detected_format = ""
    /\ ambiguous_candidates = <<>>
    /\ ai_response = NoAiCall
    /\ intermediate_data = <<>>
    /\ final_structure = <<>>
    /\ processing_result = <<>>
    /\ mpc = "idle"
    /\ returned = NotReturned
    /\ confirmed_rooms = <<>>
    /\ processing_error = FALSE
    /\ caught = ""
    /\ progress = Progress("", 0)

PdfIdle ==
    /\ pText = <<>>
    /\ pRooms = <<>>
    /\ ppc = "idle"

TransIdle ==
    /\ tRooms = <<>>
    /\ tOut = <<>>
    /\ tpc = "idle"

EstIdle ==
    /\ eName = ""
    /\ eArea = 0
    /\ eOut = <<>>
    /\ epc = "idle"

InitCalc ==
    /\ cRoom \in CalcRooms
    /\ cOut = <<>>
    /\ cpc = "first"
    /\ DedupIdle
    /\ PipeIdle
    /\ PdfIdle
    /\ TransIdle
    /\ EstIdle

\* result = RoomCalculator.calculate_room_measurements(room_data)
FirstCall ==
    /\ cpc = "first"
    /\ cOut' = Append(cOut, calculate_room_measurements(cRoom))
    /\ cRoom' = RoomDataAfterCalc(cRoom)
    /\ cpc' = "second"
    /\ UNCHANGED <<dedupVars, pipeVars, pdfVars, transVars, estVars>>

\* the same call again, on the dict as the first call left it
SecondCall ==
    /\ cpc = "second"
    /\ cOut' = Append(cOut, calculate_room_measurements(cRoom))
    /\ cRoom' = RoomDataAfterCalc(cRoom)
    /\ cpc' = "done"
    /\ UNCHANGED <<dedupVars, pipeVars, pdfVars, transVars, estVars>>

NextCalc == FirstCall \/ SecondCall

SpecCalc == InitCalc /\ [][NextCalc]_vars

----------------------------------------------------------------------------
(* Deduplicator specification: the confirmed candidates of a CSV text are  *)
(* drawn from a bounded set of rows; they are parsed and the parsed rooms  *)
(* are passed through _deduplicate_and_filter_rooms (steps 4 and 5 of      *)
(* _extract_room_data_batch).                                              *)

MaxRows == 3

\* "Kitchen,120,10x12"  "kitchen,120.05,10.1x12"  "Kitchen,150,10x15"
\* "Kitchen,,"  "Den,,10x10x8"  "Subtotal Living Area,50"  "Kitchen,0.5"
\* "Den,45"  "Den,1.2.3"  "Kitchen #2,110,10x11"
CsvRows ==
    { [name |-> "Kitchen", area |-> Num(12000), dim |-> <<100, 120>>],
      [name |-> "kitchen", area |-> Num(12005), dim |-> <<101, 120>>],
      [name |-> "Kitchen", area |-> Num(15000), dim |-> <<100, 150>>],
      [name |-> "Kitchen", area |-> NoneV, dim |-> <<>>],
      [name |-> "Den", area |-> NoneV, dim |-> <<100, 100, 80>>],
      [name |-> "Subtotal Living Area", area |-> Num(5000), dim |-> <<>>],
      [name |-> "Kitchen", area |-> Num(50), dim |-> <<>>],
      [name |-> "Den", area |-> Num(4500), dim |-> <<>>],
      [name |-> "Den", area |-> StrV, dim |-> <<>>],
      [name |-> "Kitchen #2", area |-> Num(11000), dim |-> <<100, 110>>] }

\* The candidate lists of at most n rows.  line_index counts the rows;
\* current_floor is None ("") for the rows before the floor line "2nd floor"
\* and "2Nd Floor" (str.title()) for the rows after it: once set it stays set.
CandidateLists(n) ==
    { [i \in 1..Len(q) |->
         [parts |-> q[i], line_index |-> i,
          floor |-> IF i <= k THEN "" ELSE "2Nd Floor"]] :
      q \in SeqsUpTo(CsvRows, n), k \in 0..n } 

InitDedup ==
    /\ dCands \in CandidateLists(MaxRows)
    /\ dRooms = <<>>
    /\ dFinal = <<>>
    /\ dpc = "parse"
    /\ CalcIdle
    /\ PipeIdle
    /\ PdfIdle
    /\ TransIdle
    /\ EstIdle

\* lines 259-266: rooms = the parsed candidates, or the fallback rooms
ParseConfirmed ==
    /\ dpc = "parse"
    /\ dRooms' = ParsedOrFallback(dCands)
    /\ dpc' = "dedup"
    /\ UNCHANGED <<dCands, dFinal>>
    /\ UNCHANGED <<calcVars, pipeVars, pdfVars, transVars, estVars>>

\* lines 268-269: rooms = self._deduplicate_and_filter_rooms(rooms)
Deduplicate ==
    /\ dpc = "dedup"
    /\ dFinal' = DeduplicateAndFilterRooms(dRooms)
    /\ dpc' = "done"
    /\ UNCHANGED <<dCands, dRooms>>
    /\ UNCHANGED <<calcVars, pipeVars, pdfVars, transVars, estVars>>

NextDedup == ParseConfirmed \/ Deduplicate

SpecDedup == InitDedup /\ [][NextDedup]_vars

----------------------------------------------------------------------------
(* Text of the pipeline.  A raw text is held as the sequence of its         *)
(* non-blank lines (body) and whether blank lines pad it to ten lines or    *)
(* more (pad); every loop over the lines skips blank lines.  The lines are  *)
(* drawn from LineSet; what a string operation of the code answers on a     *)
(* line or on a name is tabulated per line or name of the bounded sets.     *)

JsonTwoKitchens ==
    "{\"measurements\": [{\"room\": \"kitchen\", \"dimensions\": {\"length\": 10, \"width\": 12}}, {\"room\": \"kitchen\", \"dimensions\": {\"length\": 10, \"width\": 12}}]}"

JsonNoMeasurements == "{\"rooms\": []}"

JsonNullLength == "{\"measurements\": [{\"dimensions\": {\"length\": null}}]}"

JsonNullHeight == "{\"measurements\": [{\"dimensions\": {\"height\": null}}]}"

LineSet ==
    { "Kitchen,120,10x12", "Kitchen: 10 x 12", "Nook,45,5x9", "2nd Floor",
      "Room Attributes,,", JsonTwoKitchens, JsonNoMeasurements,
      JsonNullLength, JsonNullHeight, "Takeoff", "1st Floor",
      "Bedrooms,120,10x12" }

\* blank lines added by the padding
PadLines == 10

\* len(raw_data.split('\n')); the empty text splits into one line
LineCount(raw) ==
    IF raw.pad THEN Len(raw.body) + PadLines
    ELSE IF raw.body = <<>> THEN 1 ELSE Len(raw.body)

\* str.lower() on the file types of the input set
Lower(s) ==
    CASE s = "Image" -> "image"
      [] OTHER -> s

\* lines whose upper() holds "ROOM ATTRIBUTES", "PLAN ATTRIBUTES",
\* "GROUND SURFACE", "VOLUME" or "ROOM SCHEDULE"
CsvPatternLines == { "Room Attributes,," }

\* lines whose upper() holds "AREA CALCULATIONS", "ROOM SCHEDULE" or "TAKEOFF"
PdfPatternLines == { "Takeoff" }

\* json.loads of a line: <<>> when it raises, else the parsed document.  A
\* number of a document is in tenths; null is NoneV; an absent key Missing
\* (for "elevation" and "room": the empty string).
JsonDocOf(line) ==
    CASE line = JsonTwoKitchens ->
           << [has_measurements |-> TRUE,
               measurements |->
                 << [elevation |-> "", room |-> "kitchen", has_dimensions |-> TRUE,
                     dimensions |-> [length |-> Num(100), width |-> Num(120),
                                     height |-> Missing]],
                    [elevation |-> "", room |-> "kitchen", has_dimensions |-> TRUE,
                     dimensions |-> [length |-> Num(100), width |-> Num(120),
                                     height |-> Missing]] >>] >>
      [] line = JsonNoMeasurements ->
           << [has_measurements |-> FALSE, measurements |-> <<>>] >>
      [] line = JsonNullLength ->
           << [has_measurements |-> TRUE,
               measurements |->
                 << [elevation |-> "", room |-> "", has_dimensions |-> TRUE,
                     dimensions |-> [length |-> NoneV, width |-> Missing,
                                     height |-> Missing]] >>] >>
      [] line = JsonNullHeight ->
           << [has_measurements |-> TRUE,
               measurements |->
                 << [elevation |-> "", room |-> "", has_dimensions |-> TRUE,
                     dimensions |-> [length |-> Missing, width |-> Missing,
                                     height |-> NoneV]] >>] >>
      [] OTHER -> <<>>

\* json.loads(raw_data): the text must be one document and white space
JsonLoads(raw) ==
    IF Len(raw.body) = 1 THEN JsonDocOf(raw.body[1]) ELSE <<>>

\* (mutant) the file type hint is looked at before the header keywords
detect_format_hintFirst(raw, ft) ==
    IF Lower(ft) = "pdf" THEN "pdf_table"
    ELSE IF Lower(ft) = "image" THEN "image_ocr"
    ELSE IF \E k \in 1..Len(raw.body) : raw.body[k] \in CsvPatternLines
      THEN "csv_table"
    ELSE IF \E k \in 1..Len(raw.body) : raw.body[k] \in PdfPatternLines
      THEN "pdf_table"
    ELSE IF LineCount(raw) < 10 THEN "image_ocr"
    ELSE IF JsonLoads(raw) # <<>> THEN "json_data"
    ELSE "csv_table"

\* DataFormatDetector.detect_format
detect_format(raw, ft) ==
    IF \E k \in 1..Len(raw.body) : raw.body[k] \in CsvPatternLines
      THEN "csv_table"
    ELSE IF Lower(ft) = "pdf" \/ \E k \in 1..Len(raw.body) : raw.body[k] \in PdfPatternLines
      THEN "pdf_table"
    ELSE IF Lower(ft) = "image" \/ LineCount(raw) < 10
      THEN "image_ocr"
    ELSE IF JsonLoads(raw) # <<>>
      THEN "json_data"
    ELSE "csv_table"

\* _extract_floor_name: the matched text, str.title(); "" stands for None
ExtractFloorName(line) ==
    CASE line = "2nd Floor" -> "2Nd Floor"
      [] line = "1st Floor" -> "1St Floor"
      [] OTHER -> ""

\* the literal floor markers of lines 188-189
FloorMarkers ==
    { "1st Floor", "2nd Floor", "3rd Floor", "4th Floor", "5th Floor",
      "Ground Floor", "Main Floor", "Upper Floor", "Lower Floor", "Basement" }

\* line.strip().rstrip(',')
RStripComma(line) ==
    CASE line = "Room Attributes,," -> "Room Attributes"
      [] OTHER -> line

\* [p.strip() for p in line.split(',')] of a line holding a comma, as the
\* parts a candidate row is read from; <<>> for a line without a comma
SplitParts(line) ==
    CASE line = "Kitchen,120,10x12" ->
           << [name |-> "Kitchen", area |-> Num(12000), dim |-> <<100, 120>>] >>
      [] line = "Nook,45,5x9" ->
           << [name |-> "Nook", area |-> Num(4500), dim |-> <<50, 90>>] >>
      [] line = "Bedrooms,120,10x12" ->
           << [name |-> "Bedrooms", area |-> Num(12000), dim |-> <<100, 120>>] >>
      [] line = "Room Attributes,," ->
           << [name |-> "Room Attributes", area |-> NoneV, dim |-> <<>>] >>
      [] line = JsonTwoKitchens ->
           << [name |-> JsonFirstField, area |-> NoneV, dim |-> <<>>] >>
      [] OTHER -> <<>>

\* lines 199-202: the name's upper() holds a header word
IsHeaderName(room_name) == room_name \in { "Room Attributes" }

\* Step 1 of _extract_room_data_batch (lines 175-224); line_index tags the
\* candidate with the place of its line in the body
RECURSIVE CollectCandidates(_, _, _)
CollectCandidates(body, i, current_floor) ==
    IF i > Len(body) THEN <<>>
    ELSE LET line == body[i]
             parts == SplitParts(line)
         IN  IF ExtractFloorName(line) # ""
               THEN CollectCandidates(body, i + 1, ExtractFloorName(line))
             ELSE IF RStripComma(line) \in FloorMarkers
               THEN CollectCandidates(body, i + 1, RStripComma(line))
             ELSE IF parts # <<>> /\ ~IsHeaderName(parts[1].name)
               THEN << [parts |-> parts[1], line_index |-> i,
                        floor |-> current_floor] >>
                    \o CollectCandidates(body, i + 1, current_floor)
             ELSE CollectCandidates(body, i + 1, current_floor)

\* _is_clearly_not_room: a summary pattern matches the lowered name
IsClearlyNotRoom(room_name) ==
    room_name \in { "Total Area", "Room Attributes", "Bedrooms" }

\* _is_room_data_traditional: a room keyword is in the lowered name
IsRoomDataTraditional(room_name) ==
    room_name \in { "Kitchen", "kitchen", "Living Room", "Den", "Bedrooms",
                    "Subtotal Living Area", "Room Attributes", JsonFirstField }

\* (mutant) the keywords are tried before the reject patterns
TraditionalConfirmed_keywordFirst(candidates) ==
    SelectSeq(candidates, LAMBDA c : IsRoomDataTraditional(c.parts.name))

\* Step 2 (lines 230-247): the candidates the keywords confirm
TraditionalConfirmed(candidates) ==
    SelectSeq(candidates, LAMBDA c :
        ~IsClearlyNotRoom(c.parts.name) /\ IsRoomDataTraditional(c.parts.name))

\* Step 2: the candidates left to the classifier
AmbiguousCandidates(candidates) ==
    SelectSeq(candidates, LAMBDA c :
        ~IsClearlyNotRoom(c.parts.name) /\ ~IsRoomDataTraditional(c.parts.name))

\* (mutant) the fallback answer accepts every candidate
FalseForAll_accepting(candidates) == [k \in 1..Len(candidates) |-> TRUE]

\* [False] * len(candidates)
FalseForAll(candidates) == [k \in 1..Len(candidates) |-> FALSE]

\* What a call of the classifier can come back with: the service is in mock
\* mode, the call raises, the reply holds no JSON array, the array does not
\* parse, or the reply is a list of booleans of some length
AiResponses(n) ==
    { [kind |-> k, answers |-> <<>>] :
        k \in { "mock_mode", "raises", "no_json_array", "json_decode_error" } }
    \cup { [kind |-> "list", answers |-> q] : q \in SeqsUpTo(BOOLEAN, n + 1) }

\* _batch_ai_room_classification
BatchAiRoomClassification(candidates, response) ==
    IF candidates = <<>> THEN <<>>
    ELSE IF response.kind = "list" /\ Len(response.answers) = Len(candidates)
      THEN response.answers
    ELSE FalseForAll(candidates)

\* lines 253-256: the ambiguous candidates the classifier accepted
RECURSIVE AiConfirmed(_, _, _)
AiConfirmed(ambiguous, ai_results, i) ==
    IF i > Len(ambiguous) THEN <<>>
    ELSE (IF i <= Len(ai_results) /\ ai_results[i]
            THEN << ambiguous[i] >> ELSE <<>>)
         \o AiConfirmed(ambiguous, ai_results, i + 1)

\* confirmed_rooms after step 3
ConfirmedRooms(candidates, response) ==
    LET ambiguous == AmbiguousCandidates(candidates)
    IN  TraditionalConfirmed(candidates)
        \o (IF ambiguous = <<>> THEN <<>>
            ELSE AiConfirmed(ambiguous,
                             BatchAiRoomClassification(ambiguous, response), 1))

\* CSVTableProcessor.extract_room_data with AI classification enabled:
\* _extract_room_data_batch
ExtractRoomDataBatch(raw, response) ==
    DeduplicateAndFilterRooms(
        ParsedOrFallback(
            ConfirmedRooms(CollectCandidates(raw.body, 1, ""), response)))

\* (mutant) a keyword alone makes a room
IsRoomDataNoAi_keywordOnly(room_name) == IsRoomDataTraditional(room_name)

\* _is_room_data(room_name, area, use_ai=False) (lines 337-353): the reject
\* patterns, then the keywords, and False for what is left
IsRoomDataNoAi(room_name) ==
    IF IsClearlyNotRoom(room_name) THEN FALSE
    ELSE IF IsRoomDataTraditional(room_name) THEN TRUE
    ELSE FALSE

\* the loop of extract_room_data without AI classification (lines 103-153):
\* a room line is parsed where it is met
RECURSIVE HeuristicRooms(_, _, _)
HeuristicRooms(body, i, current_floor) ==
    IF i > Len(body) THEN <<>>
    ELSE LET line == body[i]
             parts == SplitParts(line)
         IN  IF ExtractFloorName(line) # ""
               THEN HeuristicRooms(body, i + 1, ExtractFloorName(line))
             ELSE IF RStripComma(line) \in FloorMarkers
               THEN HeuristicRooms(body, i + 1, RStripComma(line))
             ELSE IF /\ parts # <<>>
                     /\ ~IsHeaderName(parts[1].name)
                     /\ IsRoomDataNoAi(parts[1].name)
               THEN LET room_data == ParseRoomLine(parts[1], current_floor)
                    IN  [k \in 1..Len(room_data) |-> [room_data[k] EXCEPT !.id = i]]
                        \o HeuristicRooms(body, i + 1, current_floor)
             ELSE HeuristicRooms(body, i + 1, current_floor)

\* CSVTableProcessor.extract_room_data with AI classification disabled
\* (lines 90-163)
ExtractRoomDataHeuristic(raw) ==
    LET rooms == HeuristicRooms(raw.body, 1, "")
    IN  DeduplicateAndFilterRooms(IF rooms = <<>> THEN FallbackRooms ELSE rooms)

\* _extract_room_from_text: the name and the numbers (tenths) the pattern
\* captures; <<>> when it does not match
ExtractRoomFromText(line) ==
    CASE line = "Kitchen: 10 x 12" ->
           << [name |-> CleanRoomName("Kitchen"), length |-> 100, width |-> 120] >>
      [] line \in { "Kitchen,120,10x12", "Bedrooms,120,10x12" } ->
           << [name |-> CleanRoomName("1"), length |-> 0, width |-> 120] >>
      [] OTHER -> <<>>

\* the room_data dict of lines 753-759
OcrRoom(match, current_floor, i) ==
    [id |-> i,
     floor |-> IF current_floor = "" THEN "1st Floor" ELSE current_floor,
     name |-> match.name,
     base |-> match.name,
     raw_dimensions |->
        [length |-> Num(match.length), width |-> Num(match.width),
         height |-> Num(80), area |-> Num(match.length * match.width),
         perimeter |-> NoneV],
     openings |-> <<>>,
     keys |-> {"floor", "name", "raw_dimensions", "openings"}]

\* the loop of ImageOCRProcessor.extract_room_data (lines 739-760)
RECURSIVE OcrRooms(_, _, _)
OcrRooms(body, i, current_floor) ==
    IF i > Len(body) THEN <<>>
    ELSE LET line == body[i]
             match == ExtractRoomFromText(line)
         IN  IF ExtractFloorName(line) # ""
               THEN OcrRooms(body, i + 1, ExtractFloorName(line))
             ELSE IF match # <<>>
               THEN << OcrRoom(match[1], current_floor, i) >>
                    \o OcrRooms(body, i + 1, current_floor)
             ELSE OcrRooms(body, i + 1, current_floor)

\* _get_fallback_ocr_rooms
FallbackOcrRooms ==
    << [id |-> 0, floor |-> "1st Floor", name |-> "Room", base |-> "Room",
        raw_dimensions |-> [length |-> Num(120), width |-> Num(100),
            height |-> Num(80), area |-> Num(12000), perimeter |-> NoneV],
        openings |-> <<>>,
        keys |-> {"floor", "name", "raw_dimensions", "openings"}] >>

\* (mutant) the OCR extractor returns what it found, be it nothing
ImageOcrExtract_noFallback(raw) == OcrRooms(raw.body, 1, "")

\* ImageOCRProcessor.extract_room_data
ImageOcrExtract(raw) ==
    LET rooms == OcrRooms(raw.body, 1, "")
    IN  IF rooms = <<>> THEN FallbackOcrRooms ELSE rooms

\* the room_data dict of lines 820-832
JsonRoom(item, i) ==
    LET room_name == CleanRoomName(IF item.room = "" THEN "Room" ELSE item.room)
    IN  [id |-> i,
         floor |-> IF item.elevation = "" THEN "1st Floor" ELSE item.elevation,
         name |-> room_name,
         base |-> room_name,
         raw_dimensions |->
            [length |-> GetOr(item.dimensions.length, Num(100)),
             width |-> GetOr(item.dimensions.width, Num(100)),
             height |-> GetOr(item.dimensions.height, Num(80)),
             area |-> NoneV, perimeter |-> NoneV],
         openings |-> <<>>,
         keys |-> {"floor", "name", "raw_dimensions", "openings"}]

\* JSONProcessor.extract_room_data: json.loads raising, or an item without
\* "dimensions", ends in the except branch and no room is returned
JsonExtract(raw) ==
    LET parsed == JsonLoads(raw)
    IN  IF parsed = <<>> THEN <<>>
        ELSE IF ~parsed[1].has_measurements THEN <<>>
        ELSE IF \E k \in 1..Len(parsed[1].measurements) :
                    ~parsed[1].measurements[k].has_dimensions
          THEN <<>>
        ELSE [k \in 1..Len(parsed[1].measurements) |->
                JsonRoom(parsed[1].measurements[k], k)]

----------------------------------------------------------------------------
(* Opening estimator, structure transformer and calculation engine         *)

\* The keywords of estimate_openings_from_room_type and of
\* _detect_connected_space that the lowered room name holds, per name before
\* numbering (a " #i" suffix adds no keyword)
NameKeywords(name) ==
    CASE name = "Kitchen" -> { "kitchen" }
      [] name = "Living Room" -> { "living" }
      [] name \in { "Bedrooms", "Bedroom" } -> { "bedroom" }
      [] name = "Living Dining Room" -> { "living", "dining" }
      [] name = JsonFirstFieldTitle -> { "kitchen" }
      [] name = "Pantry" -> { "pantry" }
      [] name = "Kitchen Pantry" -> { "pantry", "kitchen" }
      [] name = "Storage Room" -> { "storage" }
      [] name = "Office" -> { "office" }
      [] name = "Study" -> { "study" }
      [] name = "Study Hall" -> { "study", "hall" }
      [] name = "BEDROOM" -> { "bedroom" }
      [] name = "Master Bedroom Closet" -> { "bedroom", "closet" }
      [] name = "Bathroom" -> { "bathroom" }
      [] name = "Bathroom Closet" -> { "bathroom", "closet" }
      [] name = "Closet" -> { "closet" }
      [] name = "Hallway" -> { "hall" }
      [] name = "Corridor" -> { "corridor" }
      [] name = "Family Room" -> { "family" }
      [] name = "Wine Rack" -> { "rack" }
      [] OTHER -> { }

Window(width, height) ==
    [type |-> "window", width |-> Num(width), height |-> Num(height)]

Door(width, height) ==
    [type |-> "door", width |-> Num(width), height |-> Num(height)]

\* (mutant) each bound belongs to the tier below it
EstimateWindowsBySize_boundBelow(room_area, is_living_area) ==
    IF room_area <= 8000 THEN << Window(30, 30) >>
    ELSE IF room_area <= 15000 THEN << Window(40, 35) >>
    ELSE IF room_area <= 25000
      THEN IF is_living_area THEN << Window(60, 40) >>
           ELSE << Window(40, 35), Window(30, 30) >>
    ELSE IF is_living_area THEN << Window(60, 40), Window(40, 35) >>
         ELSE << Window(40, 35), Window(40, 35), Window(30, 30) >>

\* _estimate_windows_by_size; room_area in hundredths
EstimateWindowsBySize(room_area, is_living_area) ==
    IF room_area < 8000 THEN << Window(30, 30) >>
    ELSE IF room_area < 15000 THEN << Window(40, 35) >>
    ELSE IF room_area < 25000
      THEN IF is_living_area THEN << Window(60, 40) >>
           ELSE << Window(40, 35), Window(30, 30) >>
    ELSE IF is_living_area THEN << Window(60, 40), Window(40, 35) >>
         ELSE << Window(40, 35), Window(40, 35), Window(30, 30) >>

connected_patterns ==
    << <<"kitchen", "living">>, <<"kitchen", "dining">>, <<"living", "dining">>,
       <<"kitchen", "family">>, <<"dining", "family">> >>

\* _detect_connected_space: keywords are those of the room's name; all_rooms
\* is every room of the intermediate data, the room itself included
DetectConnectedSpace(keywords, all_rooms) ==
    \E p \in 1..Len(connected_patterns) :
        LET pattern1 == connected_patterns[p][1]
            pattern2 == connected_patterns[p][2]
        IN  \/ /\ pattern1 \in keywords
               /\ \E k \in 1..Len(all_rooms) :
                      pattern2 \in NameKeywords(all_rooms[k].base)
            \/ /\ pattern1 \notin keywords
               /\ pattern2 \in keywords
               /\ \E k \in 1..Len(all_rooms) :
                      pattern1 \in NameKeywords(all_rooms[k].base)

\* estimate_openings_from_room_type
EstimateOpeningsFromRoomType(room, room_area, all_rooms) ==
    LET keywords == NameKeywords(room.base)
        has_open_wall == DetectConnectedSpace(keywords, all_rooms)
    IN  IF keywords \cap {"cabinet", "storage", "shelf", "rack", "fixture", "pantry"} # {}
          THEN <<>>
        ELSE IF keywords \cap {"bedroom", "office", "study"} # {}
          THEN << Door(30, 68) >> \o EstimateWindowsBySize(room_area, FALSE)
        ELSE IF "bathroom" \in keywords
          THEN << Door(25, 68) >>
               \o (IF room_area > 5000 THEN << Window(20, 25) >> ELSE <<>>)
        ELSE IF "closet" \in keywords
          THEN << Door(25, 68) >>
        ELSE IF keywords \cap {"living", "kitchen", "dining", "family"} # {}
          THEN (IF has_open_wall
                  THEN << [type |-> "open_wall", width |-> Num(80), height |-> Num(80)] >>
                  ELSE << Door(40, 68) >>)
               \o EstimateWindowsBySize(room_area, TRUE)
        ELSE IF keywords \cap {"hall", "corridor"} # {}
          THEN (IF room_area > 8000 THEN EstimateWindowsBySize(room_area, FALSE)
                ELSE <<>>)
        ELSE << Door(30, 68) >> \o EstimateWindowsBySize(room_area, FALSE)

\* not room_data.get("openings") (line 288): no key or an empty list
NoOpenings(room) == "openings" \notin room.keys \/ room.openings = <<>>

\* Lines 289-296 raise: the room has no openings and raw_dimensions or name
\* is not a key of it, or its area is falsy and length * width is taken of
\* a missing key or of None (the rooms the extractors make hold numbers or
\* None)
RoomAreaRaises(room) ==
    /\ NoOpenings(room)
    /\ \/ "raw_dimensions" \notin room.keys
       \/ /\ ~Truthy(GetOr(room.raw_dimensions.area, Num(0)))
          /\ ~(IsNum(room.raw_dimensions.length) /\ IsNum(room.raw_dimensions.width))
       \/ "name" \notin room.keys

\* room_area of lines 290-293
RoomArea(room) ==
    IF Truthy(GetOr(room.raw_dimensions.area, Num(0)))
      THEN room.raw_dimensions.area.v
      ELSE room.raw_dimensions.length.v * room.raw_dimensions.width.v

\* (mutant) the estimator's openings replace the extracted ones
WithEstimatedOpenings_always(room, all_rooms) ==
    IF (NoOpenings(room) /\ RoomAreaRaises(room))
         \/ "raw_dimensions" \notin room.keys
         \/ ~IsNum(GetOr(room.raw_dimensions.area, Num(0)))
      THEN room
    ELSE [room EXCEPT !.openings =
            EstimateOpeningsFromRoomType(room, RoomArea(room), all_rooms),
                      !.keys = @ \cup {"openings"}]

\* Lines 289-298: the room_data dict after the estimated openings are stored
WithEstimatedOpenings(room, all_rooms) ==
    IF ~NoOpenings(room) \/ RoomAreaRaises(room) THEN room
    ELSE [room EXCEPT !.openings =
            EstimateOpeningsFromRoomType(room, RoomArea(room), all_rooms),
                      !.keys = @ \cup {"openings"}]

\* the pass of the loop of lines 279-302 over this room raises
TransformRoomRaises(room, all_rooms) ==
    \/ RoomAreaRaises(room)
    \/ calculate_room_measurements(WithEstimatedOpenings(room, all_rooms)).raised

\* (mutant) the floor is read without the default
FloorOf_asGiven(room) == room.floor

\* room_data.get("floor", "1st Floor") (line 280)
FloorOf(room) == IF "floor" \in room.keys THEN room.floor ELSE "1st Floor"

\* the floors in the order the dict `locations` first sees them
RECURSIVE FloorsInOrder(_, _)
FloorsInOrder(entries, seen) ==
    IF entries = <<>> THEN seen
    ELSE FloorsInOrder(Tail(entries),
            IF \E k \in 1..Len(seen) : seen[k] = Head(entries).floor
              THEN seen ELSE Append(seen, Head(entries).floor))

\* list(locations.values()): entries are the calculated rooms with their floor
GroupByLocation(entries) ==
    LET floors == FloorsInOrder(entries, <<>>)
    IN  [f \in 1..Len(floors) |->
            [location |-> floors[f],
             rooms |-> LET mine == SelectSeq(entries, LAMBDA e : e.floor = floors[f])
                       IN  [k \in 1..Len(mine) |-> mine[k].room]]]

\* the words of _get_floor_sort_key that floor_name.lower() holds
FloorWords(floor_name) ==
    CASE floor_name = "Basement" -> { "basement" }
      [] floor_name = "Lower Floor" -> { "lower" }
      [] floor_name = "Ground Floor" -> { "ground" }
      [] floor_name \in { "1st Floor", "1St Floor" } -> { "1st" }
      [] floor_name \in { "2nd Floor", "2Nd Floor" } -> { "2nd" }
      [] floor_name = "3rd Floor" -> { "3rd" }
      [] OTHER -> { }

\* _get_floor_sort_key
FloorSortKey(floor_name) ==
    LET floor_lower == FloorWords(floor_name)
    IN  IF "basement" \in floor_lower \/ "lower" \in floor_lower THEN 0
        ELSE IF "ground" \in floor_lower \/ "1st" \in floor_lower THEN 1
        ELSE IF "2nd" \in floor_lower THEN 2
        ELSE IF "3rd" \in floor_lower THEN 3
        ELSE 10

\* (mutant) a location goes before the locations of its own key
RECURSIVE InsertByFloor_unstable(_, _)
InsertByFloor_unstable(sorted, loc) ==
    IF sorted = <<>> THEN << loc >>
    ELSE IF FloorSortKey(Head(sorted).location) < FloorSortKey(loc.location)
      THEN << Head(sorted) >> \o InsertByFloor_unstable(Tail(sorted), loc)
    ELSE << loc >> \o sorted

\* list.sort is stable: a location goes behind every location whose key is
\* not larger
RECURSIVE InsertByFloor(_, _)
InsertByFloor(sorted, loc) ==
    IF sorted = <<>> THEN << loc >>
    ELSE IF FloorSortKey(Head(sorted).location) <= FloorSortKey(loc.location)
      THEN << Head(sorted) >> \o InsertByFloor(Tail(sorted), loc)
    ELSE << loc >> \o sorted

RECURSIVE SortByFloor(_, _)
SortByFloor(locations, sorted) ==
    IF locations = <<>> THEN sorted
    ELSE SortByFloor(Tail(locations), InsertByFloor(sorted, Head(locations)))

\* _get_fallback_structure
FallbackStructure ==
    << [location |-> "1st Floor",
        rooms |->
          << [name |-> "Living Room",
              measurements |->
                [height |-> 900,
                 wall_area_sqft |-> 42673,
                 ceiling_area_sqft |-> 19932,
                 floor_area_sqft |-> 19932,
                 walls_and_ceiling_area_sqft |-> 62605,
                 flooring_area_sy |-> 2215,
                 ceiling_perimeter_lf |-> 5883,
                 floor_perimeter_lf |-> 4348,
                 openings |-> << [type |-> "door", size |-> "3' X 6'8\""] >>]] >>] >>

\* (mutant) an exception in a room's pass is not seen
FirstFailure_none(rooms_data) == 0

\* the first room whose pass raises, 0 when none does
FirstFailure(rooms_data) ==
    IF \E k \in 1..Len(rooms_data) : TransformRoomRaises(rooms_data[k], rooms_data)
      THEN CHOOSE k \in 1..Len(rooms_data) :
             /\ TransformRoomRaises(rooms_data[k], rooms_data)
             /\ \A j \in 1..(k - 1) : ~TransformRoomRaises(rooms_data[j], rooms_data)
      ELSE 0

\* transform_to_final_structure: the value returned and the rooms of
\* intermediate_data as the call leaves them (openings stored up to the
\* room that raised)
transform_to_final_structure(rooms_data) ==
    LET failed == FirstFailure(rooms_data)
        entries == [k \in 1..Len(rooms_data) |->
                      [floor |-> FloorOf(rooms_data[k]),
                       room |-> calculate_room_measurements(
                                  WithEstimatedOpenings(rooms_data[k], rooms_data)).value]]
    IN  [value |-> IF failed # 0 THEN FallbackStructure
                   ELSE SortByFloor(GroupByLocation(entries), <<>>),
         rooms |-> [k \in 1..Len(rooms_data) |->
                      IF failed = 0 \/ k <= failed
                        THEN WithEstimatedOpenings(rooms_data[k], rooms_data)
                        ELSE rooms_data[k]]]

\* (mutant) the result is returned without the validation
ValidatedOrFallback_unchecked(structure) == structure

\* Lines 374-379: a result without a room is replaced by the fallback
ValidatedOrFallback(structure) ==
    IF structure = <<>> \/ ~\E k \in 1..Len(structure) : structure[k].rooms # <<>>
      THEN FallbackStructure
      ELSE structure

\* MeasurementCalculationEngine.process_to_final_format
process_to_final_format(rooms_data) ==
    LET transformed == transform_to_final_structure(rooms_data)
    IN  [value |-> ValidatedOrFallback(transformed.value),
         rooms |-> transformed.rooms]

----------------------------------------------------------------------------
(* Legacy processing: _parse_csv_directly and _fallback_to_legacy_processing *)

\* lines 166-167: the floor a line sets, "" when it sets none
LegacyFloorOf(line) ==
    CASE line \in { "1st Floor", "2nd Floor" } -> line
      [] OTHER -> ""

\* line 180: a room word is in the lowered name
LegacyRoomWord(room_name) ==
    room_name \in { "Kitchen", "kitchen", "Living Room", "Room Attributes",
                    "Bedrooms", JsonFirstField }

\* lines 183-202: the measurement a room line makes.  Every comma line of
\* LineSet has three parts or more.
LegacyMeasurement(parts, current_floor) ==
    LET area == IF parts.area.t = "num" THEN parts.area.v ELSE 0
    IN  [elevation |-> IF current_floor = "" THEN "1st Floor" ELSE current_floor,
         room |-> parts.name,
         dimensions |->
            [length |-> Num(IF area > 0 THEN EstimateLength(area) ELSE 100),
             width |-> Num(IF area > 0 THEN EstimateWidth(area) ELSE 100),
             height |-> Num(80)]]

\* the loop of _parse_csv_directly (lines 159-211)
RECURSIVE LegacyMeasurements(_, _, _)
LegacyMeasurements(body, i, current_floor) ==
    IF i > Len(body) THEN <<>>
    ELSE LET line == body[i]
             floor == IF LegacyFloorOf(line) # "" THEN LegacyFloorOf(line)
                      ELSE current_floor
             parts == SplitParts(line)
         IN  (IF /\ parts # <<>>
                 /\ ~IsHeaderName(parts[1].name)
                 /\ LegacyRoomWord(parts[1].name)
                THEN << LegacyMeasurement(parts[1], floor) >>
                ELSE <<>>)
             \o LegacyMeasurements(body, i + 1, floor)

LegacyItem(elevation, room, side) ==
    [elevation |-> elevation, room |-> room,
     dimensions |-> [length |-> Num(side), width |-> Num(side), height |-> Num(80)]]

\* the fallback measurements of lines 216-237
LegacyFallbackMeasurements ==
    << LegacyItem("Ground Floor", "Bathroom", 64),
       LegacyItem("Ground Floor", "Hall", 30),
       LegacyItem("Ground Floor", "Bedroom", 106),
       LegacyItem("1st Floor", "Living Room", 181) >>

\* _parse_csv_directly
ParseCsvDirectly(raw) ==
    LET measurements == LegacyMeasurements(raw.body, 1, "")
    IN  IF measurements = <<>> THEN LegacyFallbackMeasurements ELSE measurements

\* the room_data dict of lines 384-390
LegacyRoomData(item) ==
    [id |-> 0, floor |-> item.elevation, name |-> item.room, base |-> item.room,
     raw_dimensions |->
        [length |-> item.dimensions.length, width |-> item.dimensions.width,
         height |-> item.dimensions.height, area |-> Missing,
         perimeter |-> Missing],
     openings |-> <<>>,
     keys |-> {"floor", "name", "raw_dimensions", "openings"}]

\* (mutant) the legacy processing returns the literal of lines 398-414
FallbackToLegacyProcessing_canned(raw) ==
    [raised |-> FALSE, value |-> FallbackStructure]

\* _fallback_to_legacy_processing: nothing catches what the calculator raises
FallbackToLegacyProcessing(raw) ==
    LET items == ParseCsvDirectly(raw)
        calls == [k \in 1..Len(items) |->
                    calculate_room_measurements(LegacyRoomData(items[k]))]
    IN  [raised |-> \E k \in 1..Len(calls) : calls[k].raised,
         value |-> GroupByLocation(
                     [k \in 1..Len(items) |->
                        [floor |-> items[k].elevation, room |-> calls[k].value]])]

----------------------------------------------------------------------------
(* Pipeline specification: parse_measurement_data starts the worker thread *)
(* process_with_timeout and joins it for 60 seconds.  The worker runs      *)
(* measurement_processor.process (format detection, extraction) and        *)
(* calculation_engine.process_to_final_format, then stores its result.     *)
(* When the join times out the caller runs the legacy processing while     *)
(* the worker, a daemon thread, keeps running.                             *)

MaxLines == 2

RawTexts == [body : SeqsUpTo(LineSet, MaxLines), pad : BOOLEAN]

FileTypes == { "csv", "pdf", "Image" }

\* the state after processing_thread.start() (line 304)
Init ==
    /\ raw_data \in RawTexts
    /\ file_type \in FileTypes
    /\ wpc = "detect"
    /\ detected_format = ""
    /\ ambiguous_candidates = <<>>
    /\ ai_response = NoAiCall
    /\ intermediate_data = <<>>
    /\ final_structure = <<>>
    /\ processing_result = <<>>
    /\ mpc = "join"
    /\ returned = NotReturned
    /\ confirmed_rooms = <<>>
    /\ processing_error = FALSE
    /\ caught = ""
    /\ progress = Progress("initializing", 0)
    /\ CalcIdle
    /\ DedupIdle
    /\ PdfIdle
    /\ TransIdle
    /\ EstIdle

\* lines 267-272 and MeasurementDataProcessor.process, line 858: the
\* worker reports "parsing" and detects the format
WorkerDetect ==
    /\ wpc = "detect"
    /\ detected_format' = detect_format(raw_data, file_type)
    /\ progress' = Progress("parsing", 25)
    /\ wpc' = "extract"
    /\ UNCHANGED <<raw_data, file_type, ambiguous_candidates, ai_response,
                   intermediate_data, final_structure, processing_result,
                   mpc, returned, confirmed_rooms, processing_error, caught>>
    /\ UNCHANGED <<calcVars, dedupVars, pdfVars, transVars, estVars>>

\* process, line 865, with the CSV processor (csv_table and pdf_table); the
\* classifier is called when a candidate is ambiguous and comes back with
\* any of its responses; then the worker reports "calculating" (lines
\* 276-282)
WorkerExtractCsv ==
    /\ wpc = "extract"
    /\ detected_format \in { "csv_table", "pdf_table" }
    /\ LET candidates == CollectCandidates(raw_data.body, 1, "")
           ambiguous == AmbiguousCandidates(candidates)
       IN  \E response \in (IF ambiguous = <<>> THEN { NoAiCall }
                            ELSE AiResponses(Len(ambiguous))) :
             /\ ambiguous_candidates' = ambiguous
             /\ ai_response' = response
             /\ confirmed_rooms' = ConfirmedRooms(candidates, response)
             /\ intermediate_data' = ExtractRoomDataBatch(raw_data, response)
    /\ progress' = Progress("calculating", 65)
    /\ wpc' = "calculate"
    /\ UNCHANGED <<raw_data, file_type, detected_format, final_structure,
                   processing_result, mpc, returned, processing_error, caught>>
    /\ UNCHANGED <<calcVars, dedupVars, pdfVars, transVars, estVars>>

\* process, line 865, with the OCR processor
WorkerExtractOcr ==
    /\ wpc = "extract"
    /\ detected_format = "image_ocr"
    /\ intermediate_data' = ImageOcrExtract(raw_data)
    /\ progress' = Progress("calculating", 65)
    /\ wpc' = "calculate"
    /\ UNCHANGED <<raw_data, file_type, detected_format, ambiguous_candidates,
                   ai_response, final_structure, processing_result, mpc,
                   returned, confirmed_rooms, processing_error, caught>>
    /\ UNCHANGED <<calcVars, dedupVars, pdfVars, transVars, estVars>>

\* process, line 865, with the JSON processor
WorkerExtractJson ==
    /\ wpc = "extract"
    /\ detected_format = "json_data"
    /\ intermediate_data' = JsonExtract(raw_data)
    /\ progress' = Progress("calculating", 65)
    /\ wpc' = "calculate"
    /\ UNCHANGED <<raw_data, file_type, detected_format, ambiguous_candidates,
                   ai_response, final_structure, processing_result, mpc,
                   returned, confirmed_rooms, processing_error, caught>>
    /\ UNCHANGED <<calcVars, dedupVars, pdfVars, transVars, estVars>>

\* final_structure = calculation_engine.process_to_final_format(...) (line
\* 284); the transformer stores the estimated openings in the rooms; then
\* the worker reports "finalizing" (lines 286-293)
WorkerCalculate ==
    /\ wpc = "calculate"
    /\ final_structure' = process_to_final_format(intermediate_data).value
    /\ intermediate_data' = process_to_final_format(intermediate_data).rooms
    /\ progress' = Progress("finalizing", 95)
    /\ wpc' = "store"
    /\ UNCHANGED <<raw_data, file_type, detected_format, ambiguous_candidates,
                   ai_response, processing_result, mpc, returned,
                   confirmed_rooms, processing_error, caught>>
    /\ UNCHANGED <<calcVars, dedupVars, pdfVars, transVars, estVars>>

\* processing_result[0] = final_structure (line 295); the thread ends
WorkerStore ==
    /\ wpc = "store"
    /\ processing_result' = << final_structure >>
    /\ wpc' = "finished"
    /\ UNCHANGED <<raw_data, file_type, detected_format, ambiguous_candidates,
                   ai_response, intermediate_data, final_structure, mpc,
                   returned, confirmed_rooms, processing_error, caught,
                   progress>>
    /\ UNCHANGED <<calcVars, dedupVars, pdfVars, transVars, estVars>>

\* the except branch of process_with_timeout (lines 296-299).  The stages
\* catch what their own code raises, so the exception is one the runtime
\* raises inside the worker; it reports "error", sets processing_error[0]
\* and the thread ends without a result
WorkerRaise ==
    /\ wpc \in { "detect", "extract", "calculate", "store" }
    /\ processing_error' = TRUE
    /\ progress' = Progress("error", 0)
    /\ wpc' = "failed"
    /\ UNCHANGED <<raw_data, file_type, detected_format, ambiguous_candidates,
                   ai_response, intermediate_data, final_structure,
                   processing_result, mpc, returned, confirmed_rooms, caught>>
    /\ UNCHANGED <<calcVars, dedupVars, pdfVars, transVars, estVars>>

\* (mutant) the except branch stops reporting at "fallback" 80
ExceptBranchProgress_noCompleted(result) == Progress("fallback", 80)

\* the progress entry the except branch leaves (lines 353-365): "fallback"
\* 50 is written before the legacy processing runs, "completed" 100 after
\* it has returned
ExceptBranchProgress(result) ==
    IF result.raised THEN Progress("fallback", 50)
    ELSE Progress("completed", 100)

\* join returns with the thread ended (lines 307-336): the result is
\* returned and "completed" reported; processing_error[0] or no result is
\* raised into the except branch (lines 338-367), which returns the legacy
\* processing's result and reports "completed"
CallerJoinFinished ==
    /\ mpc = "join"
    /\ wpc \in { "finished", "failed" }
    /\ IF processing_error \/ processing_result = <<>>
         THEN /\ caught' = "Exception"
              /\ returned' = FallbackToLegacyProcessing(raw_data)
              /\ progress' = ExceptBranchProgress(FallbackToLegacyProcessing(raw_data))
         ELSE /\ caught' = ""
              /\ returned' = [raised |-> FALSE, value |-> processing_result[1]]
              /\ progress' = Progress("completed", 100)
    /\ mpc' = "returned"
    /\ UNCHANGED <<raw_data, file_type, wpc, detected_format,
                   ambiguous_candidates, ai_response, intermediate_data,
                   final_structure, processing_result, confirmed_rooms,
                   processing_error>>
    /\ UNCHANGED <<calcVars, dedupVars, pdfVars, transVars, estVars>>

\* join times out with the thread alive (lines 309-311): TimeoutError is
\* raised into the same except branch (lines 338-367), which returns the
\* legacy processing's result and reports "completed"; the worker, a daemon
\* thread, keeps running
CallerJoinTimeout ==
    /\ mpc = "join"
    /\ wpc \notin { "finished", "failed" }
    /\ caught' = "TimeoutError"
    /\ returned' = FallbackToLegacyProcessing(raw_data)
    /\ progress' = ExceptBranchProgress(FallbackToLegacyProcessing(raw_data))
    /\ mpc' = "returned"
    /\ UNCHANGED <<raw_data, file_type, wpc, detected_format,
                   ambiguous_candidates, ai_response, intermediate_data,
                   final_structure, processing_result, confirmed_rooms,
                   processing_error>>
    /\ UNCHANGED <<calcVars, dedupVars, pdfVars, transVars, estVars>>

Next ==
    \/ WorkerDetect
    \/ WorkerExtractCsv
    \/ WorkerExtractOcr
    \/ WorkerExtractJson
    \/ WorkerCalculate
    \/ WorkerStore
    \/ WorkerRaise
    \/ CallerJoinFinished
    \/ CallerJoinTimeout

Spec == Init /\ [][Next]_vars

\* the caller's step out of processing_thread.join(timeout=60) (line 307):
\* the steps of Next that change mpc from "join" are CallerJoinFinished and
\* CallerJoinTimeout, and one of the two is enabled whenever mpc = "join"
CallerLeavesJoin == mpc = "join" /\ mpc' = "returned"

\* processing_thread.join(timeout=60) returns after sixty seconds at the
\* latest, whatever the worker does, and the caller's thread then runs to
\* its return: the caller's step out of the join is taken.  Nothing is
\* assumed of the worker.
SpecLive == Spec /\ WF_mpc(CallerLeavesJoin)

----------------------------------------------------------------------------
(* PDF parser: pdf_parser_service.py.  A PDF text is held as the sequence  *)
(* of its lines, drawn from PdfLineSet; no line of the set is blank or     *)
(* padded.  What a pattern captures on a line is tabulated per line; a     *)
(* measurement is in hundredths (350.0 = 35000, 9.0 ft = 900).  No two     *)
(* lines of the set join across a line break into a match of a pattern.    *)

PdfHeaderLine == "Living Room Height: 9' 0\""

PdfDoorExterior == "Door 3' X 6' 8\" Opens into Exterior"

PdfDoorPlain == "Door 3' X 6' 8\""

PdfLineSet ==
    { PdfHeaderLine, "350 SF Walls", "200 SF Ceiling", "44 LF Floor Perimeter",
      PdfDoorExterior, PdfDoorPlain, "Level 2" }

PdfWindowPlain == "Window 4' X 3'"

PdfWindowHallway == "Window 4' X 3' Opens into Hallway"

PdfWindowExterior == "Window 4' X 3' Opens into EXTERIOR"

PdfWindowAlt == "4' X 3' Window"

PdfMissingWallPlain == "Missing Wall 8' X 8'"

PdfMissingWallExterior == "Missing Wall - Goes to Floor 8' X 8' Opens into Exterior"

\* lines of a room block with windows and missing walls
PdfOpeningLineSet ==
    { PdfHeaderLine, "350 SF Walls", "180 SF Floor", PdfDoorPlain,
      PdfWindowPlain, PdfWindowHallway, PdfWindowExterior, PdfWindowAlt,
      PdfMissingWallPlain, PdfMissingWallExterior }

\* patterns['room_with_height'] on a line: the name and the height text
RoomWithHeight(line) ==
    CASE line = PdfHeaderLine -> << [name |-> "Living Room", height_str |-> "9' 0\""] >>
      [] OTHER -> <<>>

\* re.search(r"(\d+)'\s*(\d+)?", height_str): feet and inches; inches is <<>>
\* when the group is empty, the whole is <<>> when nothing matches
HeightNumeric(height_str) ==
    CASE height_str = "9' 0\"" -> << [feet |-> 9, inches |-> << 0 >>] >>
      [] OTHER -> <<>>

\* lines 62-77: the height of a header that is not "sloped" or "peaked"
ParseHeight(height_str) ==
    LET height_numeric == HeightNumeric(height_str)
    IN  IF height_numeric = <<>> THEN 800
        ELSE IF height_numeric[1].inches # <<>>
          THEN 100 * height_numeric[1].feet
               + (100 * height_numeric[1].inches[1] + 6) \div 12
        ELSE 100 * height_numeric[1].feet

\* patterns['wall_area'] on a line
PdfWallArea(line) ==
    CASE line = "350 SF Walls" -> << 35000 >>
      [] OTHER -> <<>>

\* patterns['ceiling_area'] on a line
PdfCeilingArea(line) ==
    CASE line = "200 SF Ceiling" -> << 20000 >>
      [] OTHER -> <<>>

\* patterns['floor_area'] on a line
PdfFloorArea(line) ==
    CASE line = "180 SF Floor" -> << 18000 >>
      [] OTHER -> <<>>

\* patterns['wall_ceiling_combined'] on a line
PdfWallCeilingCombined(line) == <<>>

\* patterns['floor_perimeter'] on a line
PdfFloorPerimeter(line) ==
    CASE line = "44 LF Floor Perimeter" -> << 4400 >>
      [] OTHER -> <<>>

\* patterns['ceiling_perimeter'] on a line
PdfCeilingPerimeter(line) == <<>>

\* re.search of a pattern in the joined context: matches holds what the
\* pattern captures on each line; the first line it matches on gives the
\* value; 0 is the initial value of the dict
FirstMatch(matches) ==
    LET hits == { k \in 1..Len(matches) : matches[k] # <<>> }
    IN  IF hits = {} THEN 0
        ELSE matches[CHOOSE k \in hits : \A j \in hits : k <= j][1]

\* lines 199-201 of _extract_openings: the size and the destination a line
\* starting with "Door " gives; opens_to "" stands for None
DoorLine(line) ==
    CASE line = PdfDoorExterior -> << [size |-> "3' X 6' 8\"", opens_to |-> "Exterior"] >>
      [] line = PdfDoorPlain -> << [size |-> "3' X 6' 8\"", opens_to |-> ""] >>
      [] OTHER -> <<>>

\* (mutant) no destination is read as the exterior
OpensToExterior_never(opens_to) == FALSE

\* line 211: 'exterior' in opens_to.lower()
OpensToExterior(opens_to) == opens_to \in { "Exterior", "EXTERIOR" }

\* the opening_entry of lines 226-232
DoorEntry(match) ==
    LET is_external == match.opens_to # "" /\ OpensToExterior(match.opens_to)
    IN  [type |-> "door", size |-> match.size, opens_to |-> match.opens_to,
         is_external |-> is_external, is_internal |-> ~is_external]

\* lines 241-243: the size and the destination a line starting with
\* "Window " gives
WindowLine(line) ==
    CASE line = PdfWindowPlain -> << [size |-> "4' X 3'", opens_to |-> ""] >>
      [] line = PdfWindowHallway -> << [size |-> "4' X 3'", opens_to |-> "Hallway"] >>
      [] line = PdfWindowExterior -> << [size |-> "4' X 3'", opens_to |-> "EXTERIOR"] >>
      [] OTHER -> <<>>

\* lines 285-287: the size and the destination a line starting with
\* "Missing Wall" gives
MissingWallLine(line) ==
    CASE line = PdfMissingWallPlain -> << [size |-> "8' X 8'", opens_to |-> ""] >>
      [] line = PdfMissingWallExterior -> << [size |-> "8' X 8'", opens_to |-> "Exterior"] >>
      [] OTHER -> <<>>

\* lines 350-356: the size an alternative window pattern finds on a line
\* that starts with none of the three words; no line of the two line sets
\* matches an alternative door pattern (lines 328-332)
AltWindowLine(line) ==
    CASE line = PdfWindowAlt -> << "4' X 3'" >>
      [] OTHER -> <<>>

\* (mutant) a window is external whatever its destination
WindowEntry_alwaysExternal(match) ==
    [type |-> "window", size |-> match.size, opens_to |-> match.opens_to,
     is_external |-> TRUE, is_internal |-> FALSE]

\* the opening_entry of lines 270-276: a window is external unless a
\* destination says otherwise
WindowEntry(match) ==
    LET is_external == IF match.opens_to # "" THEN OpensToExterior(match.opens_to)
                       ELSE TRUE
    IN  [type |-> "window", size |-> match.size, opens_to |-> match.opens_to,
         is_external |-> is_external, is_internal |-> ~is_external]

\* the opening_entry of lines 314-320: a missing wall is internal unless a
\* destination says otherwise
MissingWallEntry(match) ==
    LET is_external == match.opens_to # "" /\ OpensToExterior(match.opens_to)
    IN  [type |-> "open_wall", size |-> match.size, opens_to |-> match.opens_to,
         is_external |-> is_external, is_internal |-> ~is_external]

\* the opening_entry of lines 362-368
AltWindowEntry(size) ==
    [type |-> "window", size |-> size, opens_to |-> "",
     is_external |-> TRUE, is_internal |-> FALSE]

\* the entry a line of the context makes, <<>> when it names no opening:
\* the if/elif chain of lines 196-372
OpeningOfLine(line) ==
    IF DoorLine(line) # <<>> THEN << DoorEntry(DoorLine(line)[1]) >>
    ELSE IF WindowLine(line) # <<>> THEN << WindowEntry(WindowLine(line)[1]) >>
    ELSE IF MissingWallLine(line) # <<>>
      THEN << MissingWallEntry(MissingWallLine(line)[1]) >>
    ELSE IF AltWindowLine(line) # <<>> THEN << AltWindowEntry(AltWindowLine(line)[1]) >>
    ELSE <<>>

\* the duplicate tests: type, size and destination for a line starting
\* with one of the three words (lines 219-224), type and size for an
\* alternative pattern (line 360)
IsExistingOpening(openings_list, entry, line) ==
    \E k \in 1..Len(openings_list) :
        /\ openings_list[k].type = entry.type
        /\ openings_list[k].size = entry.size
        /\ AltWindowLine(line) = <<>> => openings_list[k].opens_to = entry.opens_to

\* _extract_openings
RECURSIVE ExtractOpenings(_, _, _)
ExtractOpenings(context_lines, i, openings_list) ==
    IF i > Len(context_lines) THEN openings_list
    ELSE LET entry == OpeningOfLine(context_lines[i])
         IN  ExtractOpenings(context_lines, i + 1,
                IF entry # <<>>
                     /\ ~IsExistingOpening(openings_list, entry[1], context_lines[i])
                  THEN Append(openings_list, entry[1])
                  ELSE openings_list)

\* _extract_detailed_measurements: <<>> stands for None
ExtractDetailedMeasurements(context_lines) ==
    LET combined == FirstMatch([k \in 1..Len(context_lines) |->
                                   PdfWallCeilingCombined(context_lines[k])])
        wall == FirstMatch([k \in 1..Len(context_lines) |-> PdfWallArea(context_lines[k])])
        ceiling == FirstMatch([k \in 1..Len(context_lines) |-> PdfCeilingArea(context_lines[k])])
        floor == FirstMatch([k \in 1..Len(context_lines) |-> PdfFloorArea(context_lines[k])])
    IN  IF wall = 0 /\ floor = 0 THEN <<>>
        ELSE << [wall_area_sqft |-> wall,
                 ceiling_area_sqft |-> ceiling,
                 floor_area_sqft |-> floor,
                 walls_and_ceiling_area_sqft |->
                    IF combined = 0 THEN wall + ceiling ELSE combined,
                 floor_perimeter_lf |->
                    FirstMatch([k \in 1..Len(context_lines) |->
                                  PdfFloorPerimeter(context_lines[k])]),
                 ceiling_perimeter_lf |->
                    FirstMatch([k \in 1..Len(context_lines) |->
                                  PdfCeilingPerimeter(context_lines[k])]),
                 openings |-> ExtractOpenings(context_lines, 1, <<>>),
                 flooring_area_sy |-> RoundDiv9(floor)] >>

\* lines[i:i+30]
ContextLines == 30

\* lines 95-108: the location a line sets, "" when it holds no pattern
LocationOf(line) ==
    CASE line = "Level 2" -> "Level 2"
      [] OTHER -> ""

\* the loop of extract_room_measurements (lines 54-110)
RECURSIVE PdfRoomsFrom(_, _, _)
PdfRoomsFrom(lines, i, current_location) ==
    IF i > Len(lines) THEN <<>>
    ELSE LET line == lines[i]
             height_match == RoomWithHeight(line)
             last == IF i + ContextLines - 1 < Len(lines)
                       THEN i + ContextLines - 1 ELSE Len(lines)
             measurements == ExtractDetailedMeasurements(SubSeq(lines, i, last))
         IN  (IF height_match # <<>> /\ measurements # <<>>
                THEN << [location |-> current_location,
                         name |-> height_match[1].name,
                         measurements |->
                            ("height" :> ParseHeight(height_match[1].height_str))
                            @@ measurements[1]] >>
                ELSE <<>>)
             \o PdfRoomsFrom(lines, i + 1,
                   IF LocationOf(line) # "" THEN LocationOf(line)
                   ELSE current_location)

\* PDFParserService.extract_room_measurements
extract_room_measurements(pdf_text) == PdfRoomsFrom(pdf_text, 1, "Main Level")

----------------------------------------------------------------------------
(* PDF specification: extract_room_measurements is called on a text of     *)
(* lines of PdfLineSet or on a text of lines of PdfOpeningLineSet.         *)

MaxPdfLines == 5

MaxOpeningLines == 4

InitPdf ==
    /\ pText \in SeqsUpTo(PdfLineSet, MaxPdfLines)
                 \cup SeqsUpTo(PdfOpeningLineSet, MaxOpeningLines)
    /\ pRooms = <<>>
    /\ ppc = "start"
    /\ CalcIdle
    /\ DedupIdle
    /\ PipeIdle
    /\ TransIdle
    /\ EstIdle

\* rooms = self.extract_room_measurements(pdf_text) (line 459)
CallExtractRoomMeasurements ==
    /\ ppc = "start"
    /\ pRooms' = extract_room_measurements(pText)
    /\ ppc' = "done"
    /\ UNCHANGED pText
    /\ UNCHANGED <<calcVars, dedupVars, pipeVars, transVars, estVars>>

NextPdf == CallExtractRoomMeasurements

SpecPdf == InitPdf /\ [][NextPdf]_vars

----------------------------------------------------------------------------
(* Transformer specification: transform_to_final_structure is called on a  *)
(* list of rooms.  TransRoomLists holds rooms without openings, each on a  *)
(* floor of TransFloors with a name of TransNames and the dimensions       *)
(* 10 x 12 x 8; MixedRoomLists holds rooms with or without a floor key,    *)
(* openings and usable dimensions.                                         *)

MaxTransRooms == 3

TransFloors ==
    { "Basement", "Ground Floor", "1st Floor", "2nd Floor", "3rd Floor", "Attic" }

TransNames == { "Kitchen", "Living Room", "Bedroom", "Living Dining Room" }

\* a room_data dict as the extractors make it
TransRoom(floor, name, i) ==
    [id |-> i, floor |-> floor, name |-> name, base |-> name,
     raw_dimensions |->
        [length |-> Num(100), width |-> Num(120), height |-> Num(80),
         area |-> Num(12000), perimeter |-> NoneV],
     openings |-> <<>>,
     keys |-> {"floor", "name", "raw_dimensions", "openings"}]

TransRoomLists ==
    { [k \in 1..Len(q) |-> TransRoom(q[k][1], q[k][2], k)] :
        q \in SeqsUpTo(TransFloors \X TransNames, MaxTransRooms) }

MaxMixedRooms == 2

\* "" stands for a room_data dict without the key "floor"
MixedFloors == { "1st Floor", "2nd Floor", "" }

MixedNames == { "Kitchen", "Bedroom" }

\* raw dimensions as read, with length and area None, with height None,
\* and (every entry missing) a room_data dict without "raw_dimensions"
NoRawDimensions ==
    [length |-> Missing, width |-> Missing, height |-> Missing,
     area |-> Missing, perimeter |-> Missing]

MixedDims ==
    { [length |-> Num(100), width |-> Num(120), height |-> Num(80),
       area |-> Num(12000), perimeter |-> NoneV],
      [length |-> NoneV, width |-> Num(120), height |-> Num(80),
       area |-> NoneV, perimeter |-> NoneV],
      [length |-> Num(100), width |-> Num(120), height |-> NoneV,
       area |-> Num(12000), perimeter |-> NoneV],
      NoRawDimensions }

\* openings as an extractor read them: none, or one door 2.8 x 6.8
MixedOpenings == { <<>>, << Door(28, 68) >> }

\* a room_data dict whose floor, dimensions or openings were not extracted
MixedRoom(floor, name, dims, openings, i) ==
    [id |-> i, floor |-> floor, name |-> name, base |-> name,
     raw_dimensions |-> dims,
     openings |-> openings,
     keys |-> {"name", "openings"}
              \cup (IF floor = "" THEN {} ELSE {"floor"})
              \cup (IF dims = NoRawDimensions THEN {} ELSE {"raw_dimensions"})]

MixedRoomLists ==
    { [k \in 1..Len(q) |-> MixedRoom(q[k][1], q[k][2], q[k][3], q[k][4], k)] :
        q \in SeqsUpTo(MixedFloors \X MixedNames \X MixedDims \X MixedOpenings,
                       MaxMixedRooms) }

InitTrans ==
    /\ tRooms \in TransRoomLists \cup MixedRoomLists
    /\ tOut = <<>>
    /\ tpc = "start"
    /\ CalcIdle
    /\ DedupIdle
    /\ PipeIdle
    /\ PdfIdle
    /\ EstIdle

\* final_structure = self.transformer.transform_to_final_structure(...)
\* (room_calculator.py line 371); the estimated openings are stored in the
\* rooms handed in
CallTransform ==
    /\ tpc = "start"
    /\ tOut' = transform_to_final_structure(tRooms).value
    /\ tRooms' = transform_to_final_structure(tRooms).rooms
    /\ tpc' = "done"
    /\ UNCHANGED <<calcVars, dedupVars, pipeVars, pdfVars, estVars>>

NextTrans == CallTransform

SpecTrans == InitTrans /\ [][NextTrans]_vars

----------------------------------------------------------------------------
(* A call of estimate_openings_from_room_type by itself: a room name, an   *)
(* area around the bounds of the table, and no list of rooms.              *)

EstNames ==
    { "Pantry", "Kitchen Pantry", "Storage Room", "Office", "Study",
      "Study Hall", "Bedroom", "BEDROOM", "Master Bedroom Closet", "Bathroom",
      "Bathroom Closet", "Closet", "Hallway", "Corridor", "Garage",
      "Kitchen", "Family Room", "Wine Rack" }

\* room_area in hundredths: 40.0, 50.0, 50.01, 79.99, 80.0, 80.01, ...
EstAreas ==
    { 4000, 5000, 5001, 7999, 8000, 8001, 14999, 15000, 15001,
      24999, 25000, 25001 }

InitEst ==
    /\ eName \in EstNames
    /\ eArea \in EstAreas
    /\ eOut = <<>>
    /\ epc = "start"
    /\ CalcIdle
    /\ DedupIdle
    /\ PipeIdle
    /\ PdfIdle
    /\ TransIdle

\* RoomCalculator.estimate_openings_from_room_type(room_name, room_area):
\* all_rooms keeps its default None, read as the empty list (line 153)
CallEstimate ==
    /\ epc = "start"
    /\ eOut' = EstimateOpeningsFromRoomType([base |-> eName], eArea, <<>>)
    /\ epc' = "done"
    /\ UNCHANGED <<eName, eArea>>
    /\ UNCHANGED <<calcVars, dedupVars, pipeVars, pdfVars, transVars>>

NextEst == CallEstimate

SpecEst == InitEst /\ [][NextEst]_vars

----------------------------------------------------------------------------
(* Claims about the calculator, checked under SpecCalc *)

\* the room_data of a finished call is a failing record of the kinds the
\* claim lists: raw_dimensions missing, length/width/height missing, height
\* not a number, or length/width not a number where they are used
C8_FailingRecord(room_data) ==
    LET dims == room_data.raw_dimensions
    IN  \/ "raw_dimensions" \notin room_data.keys
        \/ dims.length.t = "missing"
        \/ dims.height.t # "num"
        \/ (dims.length.t # "num"
              /\ (dims.area.t \in {"missing", "none"} \/ dims.perimeter.t = "none"))

\* C8: calculate_room_measurements never raises to its caller, and for a
\* room record on which the calculation fails it returns the canned room
\* (height 8.0, wall 320, floor and ceiling 100, combined 420, perimeters
\* 40, no openings) under the room's own name.
C8_NeverRaisesCannedFallback ==
    \A i \in 1..Len(cOut) :
        /\ ~cOut[i].raised
        /\ C8_FailingRecord(cRoom) =>
             /\ cOut[i].value.name =
                  (IF "name" \in cRoom.keys THEN cRoom.name ELSE "Unknown")
             /\ cOut[i].value.measurements.height = 800
             /\ cOut[i].value.measurements.wall_area_sqft = 32000
             /\ cOut[i].value.measurements.floor_area_sqft = 10000
             /\ cOut[i].value.measurements.ceiling_area_sqft = 10000
             /\ cOut[i].value.measurements.walls_and_ceiling_area_sqft = 42000
             /\ cOut[i].value.measurements.floor_perimeter_lf = 4000
             /\ cOut[i].value.measurements.ceiling_perimeter_lf = 4000
             /\ cOut[i].value.measurements.openings = <<>>

\* C8 witness: a call on a record whose length is not a number (and whose
\* perimeter is absent) has returned the canned room named "Kitchen"
C8_Witness ==
    /\ Len(cOut) >= 1
    /\ "raw_dimensions" \in cRoom.keys /\ "name" \in cRoom.keys
    /\ cRoom.raw_dimensions.length.t = "str"
    /\ cRoom.raw_dimensions.perimeter.t = "none"
    /\ cRoom.openings # <<>>
    /\ cOut[1].value.name = "Kitchen"
    /\ cOut[1].value.measurements.wall_area_sqft = 32000

\* the openings the claim speaks of: a door, window or open_wall whose
\* width and height are numbers or left to the type's default
C9_PlainOpening(o) ==
    /\ o.type \in {"door", "window", "open_wall"}
    /\ o.width.t \in {"num", "missing"}
    /\ o.height.t \in {"num", "missing"}

C9_Width(o) ==
    IF o.width.t = "num" THEN o.width.v ELSE OPENING_TYPES[o.type].default_width

C9_Height(o) ==
    IF o.height.t = "num" THEN o.height.v ELSE OPENING_TYPES[o.type].default_height

RECURSIVE C9_AreaSum(_, _)
C9_AreaSum(openings, H) ==
    IF openings = <<>> THEN 0
    ELSE (IF Head(openings).type = "open_wall"
            THEN C9_Width(Head(openings)) * H
            ELSE C9_Width(Head(openings)) * C9_Height(Head(openings)))
         + C9_AreaSum(Tail(openings), H)

RECURSIVE C9_OpenWallWidths(_)
C9_OpenWallWidths(openings) ==
    IF openings = <<>> THEN 0
    ELSE (IF Head(openings).type = "open_wall" THEN C9_Width(Head(openings)) ELSE 0)
         + C9_OpenWallWidths(Tail(openings))

C9_P(room_data) ==
    IF room_data.raw_dimensions.perimeter.t = "num"
         /\ room_data.raw_dimensions.perimeter.v # 0
      THEN room_data.raw_dimensions.perimeter.v
      ELSE 2 * (room_data.raw_dimensions.length.v + room_data.raw_dimensions.width.v)

C9_Applies(room_data) ==
    /\ room_data.keys = {"name", "raw_dimensions", "openings"}
    /\ room_data.raw_dimensions.length.t = "num"
    /\ room_data.raw_dimensions.height.t = "num"
    /\ room_data.raw_dimensions.area.t # "str"
    /\ \A k \in 1..Len(room_data.openings) : C9_PlainOpening(room_data.openings[k])

\* C9: for a room with perimeter P, height H and any list of openings the
\* wall area is P*H less, per opening, width*H for an open_wall and
\* width*height for a door or window, with no clamp (it may be negative);
\* both perimeter outputs are max(P - the open_wall widths, 0).
C9_OpeningMath ==
    \A i \in 1..Len(cOut) :
        C9_Applies(cRoom) =>
            LET H == cRoom.raw_dimensions.height.v
                P == C9_P(cRoom)
                m == cOut[i].value.measurements
                reduced == P - C9_OpenWallWidths(cRoom.openings)
            IN  /\ m.wall_area_sqft = P * H - C9_AreaSum(cRoom.openings, H)
                /\ m.floor_perimeter_lf = 10 * (IF reduced > 0 THEN reduced ELSE 0)
                /\ m.ceiling_perimeter_lf = 10 * (IF reduced > 0 THEN reduced ELSE 0)
                /\ m.floor_perimeter_lf >= 0

\* C9 witness: a 2.0 x 1.0 room (P = 6.0) with an 8.0 open wall and a door:
\* the wall area came out negative and the perimeter was clamped to 0
C9_Witness ==
    /\ Len(cOut) >= 1
    /\ C9_Applies(cRoom)
    /\ \E k \in 1..Len(cRoom.openings) : cRoom.openings[k].type = "open_wall"
    /\ \E k \in 1..Len(cRoom.openings) : cRoom.openings[k].type = "door"
    /\ cOut[1].value.measurements.wall_area_sqft < 0
    /\ cOut[1].value.measurements.floor_perimeter_lf = 0

----------------------------------------------------------------------------
(* Claims about the deduplicator, checked under SpecDedup *)

\* C2: a room whose raw dimensions are exactly length 10, width 10, height 8
\* is dropped by the deduplicator whatever its name and whether or not
\* another row shares its (floor, name): no such room is in the output.
C2_NoDummyRoomSurvives ==
    dpc = "done" =>
        \A k \in 1..Len(dFinal) :
            ~(/\ dFinal[k].raw_dimensions.length = Num(100)
              /\ dFinal[k].raw_dimensions.width = Num(100)
              /\ dFinal[k].raw_dimensions.height = Num(80))

\* rows i and j of the deduplicator's argument share floor and name and have
\* the same length, width and area
C3_SameRow(i, j) ==
    /\ dRooms[i].floor = dRooms[j].floor
    /\ dRooms[i].name = dRooms[j].name
    /\ dRooms[i].raw_dimensions.length = dRooms[j].raw_dimensions.length
    /\ dRooms[i].raw_dimensions.width = dRooms[j].raw_dimensions.width
    /\ dRooms[i].raw_dimensions.area = dRooms[j].raw_dimensions.area

\* how many rows of the output are copies of row i of the argument
C3_Survivors(i) ==
    Cardinality({ k \in 1..Len(dFinal) :
        \E j \in 1..Len(dRooms) : C3_SameRow(i, j) /\ dFinal[k].id = dRooms[j].id })

\* C3 as claimed: of n >= 2 rows that share (floor, name) and have identical
\* length, width and area, exactly one survives.
C3_ExactlyOneSurvives ==
    dpc = "done" =>
        \A i, j \in 1..Len(dRooms) :
            (i < j /\ C3_SameRow(i, j)) => C3_Survivors(i) = 1

\* row i is small enough to be skipped, or its name matches a skip pattern
C3_Filtered(i) ==
    \/ (dRooms[i].raw_dimensions.area.v < 100
          /\ dRooms[i].raw_dimensions.length.v * dRooms[i].raw_dimensions.width.v < 100)
    \/ dRooms[i].name \in {"Subtotal Living Area", "Total Area", "Room Attributes"}

\* an earlier row of another shape has the floor and name of row i
C3_EarlierOfGroup(i) ==
    \E h \in 1..(i - 1) :
        /\ dRooms[h].floor = dRooms[i].floor
        /\ dRooms[h].name = dRooms[i].name
        /\ ~C3_SameRow(h, i)

\* C3 as amended: of n >= 2 such rows at most one survives; exactly one
\* survives when the rows are not tiny, their name matches no skip pattern
\* and no earlier row of another shape has their floor and name.
C3_AtMostOneSurvives ==
    dpc = "done" =>
        \A i, j \in 1..Len(dRooms) :
            (i < j /\ C3_SameRow(i, j)) =>
                /\ C3_Survivors(i) <= 1
                /\ (~C3_Filtered(i) /\ ~C3_EarlierOfGroup(i)) => C3_Survivors(i) = 1

\* C3 witness: two identical rows stand on either side of another row of
\* their floor and name, and exactly one of the two is in the output
C3_Witness ==
    /\ dpc = "done"
    /\ Len(dRooms) = 3
    /\ C3_SameRow(1, 3)
    /\ ~C3_SameRow(1, 2)
    /\ dRooms[2].floor = dRooms[1].floor /\ dRooms[2].name = dRooms[1].name
    /\ C3_Survivors(1) = 1
    /\ Len(dFinal) = 2

\* the rows of the output that came in under the floor and name of row k
C5_Group(k) ==
    { j \in 1..Len(dFinal) :
        dFinal[j].floor = dFinal[k].floor /\ dFinal[j].base = dFinal[k].base }

\* C5: when k >= 2 surviving rows share (floor, name), each is renamed
\* "<name> #i", i = 1..k in input order; a row alone in its group keeps its
\* name; no group of two or more keeps an unnumbered member.
C5_NumberedInInputOrder ==
    dpc = "done" =>
        \A k \in 1..Len(dFinal) :
            IF Cardinality(C5_Group(k)) >= 2
              THEN dFinal[k].name = dFinal[k].base \o " #" \o
                     ToString(Cardinality({ j \in C5_Group(k) : dFinal[j].id <= dFinal[k].id }))
              ELSE dFinal[k].name = dFinal[k].base

\* C5 witness: three rows of one floor and name survived and carry #1, #2
\* and #3 in the order they came in, beside no other row
C5_Witness ==
    /\ dpc = "done"
    /\ Len(dFinal) = 3
    /\ dFinal[1].id = 1 /\ dFinal[2].id = 2 /\ dFinal[3].id = 3
    /\ dFinal[1].name = "Kitchen #1"
    /\ dFinal[2].name = "Kitchen #2"
    /\ dFinal[3].name = "Kitchen #3"

----------------------------------------------------------------------------
(* Claims about the pipeline, checked under Spec *)

\* C1: whatever the raw text and the file type, and whichever stage fails or
\* times out, parse_measurement_data returns and does not raise; the list
\* it returns is not empty and at least one of its Locations holds a room.
C1_NeverEmptyNeverRaises ==
    mpc = "returned" =>
        /\ ~returned.raised
        /\ returned.value # <<>>
        /\ \E l \in 1..Len(returned.value) : returned.value[l].rooms # <<>>

\* the extractor found no room, the engine put the fallback structure in
\* place of the empty result and the caller returned it
C1_Witness ==
    /\ mpc = "returned"
    /\ wpc = "finished"
    /\ detected_format = "json_data"
    /\ intermediate_data = <<>>
    /\ processing_result = << FallbackStructure >>
    /\ returned = [raised |-> FALSE, value |-> FallbackStructure]

\* C4: in the final output of the pipeline, whatever format was detected, no
\* room appears twice: no Location of the structure the worker hands over
\* holds, at two places, rooms of the same name with identical measurements.
C4_NoRoomTwice ==
    wpc = "finished" =>
        \A l \in 1..Len(processing_result[1]) :
            \A i, j \in 1..Len(processing_result[1][l].rooms) :
                i < j => processing_result[1][l].rooms[i]
                           # processing_result[1][l].rooms[j]

C6_PerimetersEqualIn(structure) ==
    \A l \in 1..Len(structure) :
        \A k \in 1..Len(structure[l].rooms) :
            structure[l].rooms[k].measurements.floor_perimeter_lf
              = structure[l].rooms[k].measurements.ceiling_perimeter_lf

\* C6 as stated: in every room of every returned output, the fallback
\* structure included, floor_perimeter_lf equals ceiling_perimeter_lf.
C6_PerimetersAlwaysEqual ==
    mpc = "returned" => C6_PerimetersEqualIn(returned.value)

\* C6 (amended): in every room that calculate_room_measurements made (a
\* calculated room or the per-room fallback record), that is in every
\* returned output other than the fallback structure, floor_perimeter_lf
\* equals ceiling_perimeter_lf.
C6_CalculatedPerimetersEqual ==
    (mpc = "returned" /\ returned.value # FallbackStructure) =>
        C6_PerimetersEqualIn(returned.value)

\* an output of the transformer holding a calculated room with openings was
\* returned
C6_Witness ==
    /\ mpc = "returned"
    /\ returned.value # FallbackStructure
    /\ \E l \in 1..Len(returned.value) :
         \E k \in 1..Len(returned.value[l].rooms) :
            /\ returned.value[l].rooms[k].measurements.openings # <<>>
            /\ returned.value[l].rooms[k].measurements.floor_perimeter_lf > 0

\* the classifier call did not deliver a usable answer
C7_ClassifierFailed ==
    \/ ai_response.kind \in { "mock_mode", "raises", "no_json_array",
                              "json_decode_error" }
    \/ /\ ai_response.kind = "list"
       /\ Len(ai_response.answers) # Len(ambiguous_candidates)

\* the room was parsed from a line the keywords confirm, or is one of the
\* extractor's fallback rooms
C7_FromKeywordCandidate(room) ==
    IF room.id = 0
      THEN \E f \in 1..Len(FallbackRooms) :
              /\ FallbackRooms[f].base = room.base
              /\ FallbackRooms[f].raw_dimensions = room.raw_dimensions
      ELSE /\ SplitParts(raw_data.body[room.id]) # <<>>
           /\ IsRoomDataTraditional(SplitParts(raw_data.body[room.id])[1].name)

\* C7: when the classifier is in mock mode, raises, answers without a JSON
\* array or with one that does not parse, or answers with a list of another
\* length than the candidates, every extracted room comes from a candidate
\* the keywords confirm or from the fallback rooms.
C7_NoAmbiguousAccepted ==
    (/\ wpc \in { "calculate", "store", "finished" }
     /\ detected_format \in { "csv_table", "pdf_table" }
     /\ C7_ClassifierFailed)
    => \A k \in 1..Len(intermediate_data) :
           C7_FromKeywordCandidate(intermediate_data[k])

\* a candidate was ambiguous, the classifier answered "true" in a list of
\* the wrong length, and a keyword-confirmed room was extracted
C7_Witness ==
    /\ wpc = "calculate"
    /\ detected_format \in { "csv_table", "pdf_table" }
    /\ ambiguous_candidates # <<>>
    /\ ai_response.kind = "list"
    /\ Len(ai_response.answers) # Len(ambiguous_candidates)
    /\ \E a \in 1..Len(ai_response.answers) : ai_response.answers[a]
    /\ \E k \in 1..Len(intermediate_data) : intermediate_data[k].id # 0

----------------------------------------------------------------------------
(* Claims about format detection, checked under Spec *)

\* the upper-cased text holds one of the header keywords
C11_HasHeaderKeyword ==
    \E k \in 1..Len(raw_data.body) : raw_data.body[k] \in CsvPatternLines

\* the upper-cased text holds AREA CALCULATIONS or TAKEOFF
C11_HasPdfKeyword ==
    \E k \in 1..Len(raw_data.body) : raw_data.body[k] \in PdfPatternLines

\* the format the five rules of the claim give, taken in their order
C11_FormatByRules ==
    IF C11_HasHeaderKeyword THEN "csv_table"
    ELSE IF file_type \in { "pdf" } \/ C11_HasPdfKeyword THEN "pdf_table"
    ELSE IF file_type \in { "image", "Image" } \/ LineCount(raw_data) < 10
      THEN "image_ocr"
    ELSE IF JsonLoads(raw_data) # <<>> THEN "json_data"
    ELSE "csv_table"

\* C11: the detected format is that of the first rule that applies, in the
\* order header keyword (csv_table, whatever the hint), pdf hint or PDF
\* keyword (pdf_table), image hint or fewer than ten lines (image_ocr), text
\* that parses as JSON (json_data), otherwise csv_table; it is always one of
\* the four formats.
C11_DetectionOrder ==
    wpc \in { "extract", "calculate", "store", "finished" } =>
        /\ detected_format \in { "csv_table", "pdf_table", "image_ocr", "json_data" }
        /\ detected_format = C11_FormatByRules

\* a header keyword in mixed case wins over the image hint
C11_Witness ==
    /\ wpc = "extract"
    /\ C11_HasHeaderKeyword
    /\ file_type = "Image"
    /\ detected_format = "csv_table"

----------------------------------------------------------------------------
(* Claims about the scenarios of the pipeline, checked under Spec *)

\* the text is a floor line followed by one room row "<name>,<area>,<L>x<W>"
\* and the file type is csv
C12_IsScenarioA ==
    /\ file_type = "csv"
    /\ ~raw_data.pad
    /\ Len(raw_data.body) = 2
    /\ raw_data.body[1] \in { "1st Floor", "2nd Floor" }
    /\ SplitParts(raw_data.body[2]) # <<>>
    /\ SplitParts(raw_data.body[2])[1].area # NoneV
    /\ SplitParts(raw_data.body[2])[1].dim # <<>>
    /\ ~IsClearlyNotRoom(SplitParts(raw_data.body[2])[1].name)

\* C12: a floor line followed by one room row, file type csv, gives one
\* Location named after the floor line with one Room of the row's name, the
\* stated floor area, height 8.0 and estimated openings.
C12_ScenarioA ==
    (wpc = "finished" /\ C12_IsScenarioA) =>
        LET structure == processing_result[1]
            row == SplitParts(raw_data.body[2])[1]
        IN  /\ Len(structure) = 1
            /\ structure[1].location = raw_data.body[1]
            /\ Len(structure[1].rooms) = 1
            /\ structure[1].rooms[1].name = row.name
            /\ structure[1].rooms[1].measurements.floor_area_sqft = row.area.v
            /\ structure[1].rooms[1].measurements.height = 800
            /\ structure[1].rooms[1].measurements.openings # <<>>

----------------------------------------------------------------------------
(* Claims about the PDF parser, checked under SpecPdf *)

\* the text is the room header followed by the walls, ceiling and floor
\* perimeter lines and the one door line, in any order
C13_IsScenarioC ==
    /\ Len(pText) = 5
    /\ pText[1] = PdfHeaderLine
    /\ { pText[k] : k \in 2..5 } =
          { "350 SF Walls", "200 SF Ceiling", "44 LF Floor Perimeter", PdfDoorExterior }

\* what the claim says of the room apart from its wall area
C13_RoomAsStated ==
    /\ Len(pRooms) = 1
    /\ pRooms[1].measurements.height = 900
    /\ pRooms[1].measurements.ceiling_area_sqft = 20000
    /\ pRooms[1].measurements.floor_perimeter_lf = 4400
    /\ Len(pRooms[1].measurements.openings) = 1
    /\ pRooms[1].measurements.openings[1].type = "door"
    /\ pRooms[1].measurements.openings[1].is_external

\* C13 as stated: the room of Scenario C has height 9.0, ceiling area 200.0,
\* floor perimeter 44.0, one door opening that is external, and a wall area
\* of 350.0 less the door's opening area (3' x 6' 8" = 20.0 sq ft).
C13_WallAreaLessOpening ==
    (ppc = "done" /\ C13_IsScenarioC) =>
        /\ C13_RoomAsStated
        /\ pRooms[1].measurements.wall_area_sqft = 35000 - 2000

\* C13 (amended): the room of Scenario C has height 9.0, ceiling area 200.0,
\* floor perimeter 44.0, one door opening that is external, and the wall
\* area the text states, 350.0: no opening area is taken off it.
C13_WallAreaAsRead ==
    (ppc = "done" /\ C13_IsScenarioC) =>
        /\ C13_RoomAsStated
        /\ pRooms[1].measurements.wall_area_sqft = 35000

\* Scenario C in the order of the claim was parsed into a room
C13_Witness ==
    /\ ppc = "done"
    /\ pText = << PdfHeaderLine, "350 SF Walls", "200 SF Ceiling",
                  "44 LF Floor Perimeter", PdfDoorExterior >>
    /\ Len(pRooms) = 1

\* no line of the text holds a room any extractor or the legacy parser can
\* read: the text is empty or made of floor lines, a header line, a line
\* without data and a JSON document without measurements
C14_NoParsableRoom ==
    \A k \in 1..Len(raw_data.body) :
        raw_data.body[k] \in { "Takeoff", "1st Floor", "2nd Floor",
                               "Room Attributes,,", JsonNoMeasurements }

C14_WorkerFallback ==
    CASE detected_format \in { "csv_table", "pdf_table" } ->
           process_to_final_format(DeduplicateAndFilterRooms(FallbackRooms)).value
      [] detected_format = "image_ocr" ->
           process_to_final_format(FallbackOcrRooms).value
      [] OTHER -> FallbackStructure

----------------------------------------------------------------------------
(* Claims about the timeout of parse_measurement_data, checked under Spec *)

----------------------------------------------------------------------------
(* Claims about the extractors' fallback rooms, checked under Spec *)

\* C16: whatever the text and the format, the extractor that ran returned a
\* room list that is not empty.
C16_ExtractionNeverEmpty ==
    wpc = "calculate" => intermediate_data # <<>>

\* C17: once the caller has returned after a timeout, no step of the
\* abandoned worker changes the session's progress entry or the returned
\* result.
C17_AbandonedWorkerSilent ==
    [][(mpc = "returned" /\ caught = "TimeoutError")
          => (progress' = progress /\ returned' = returned)]_vars

----------------------------------------------------------------------------
(* Claims about the transformer, checked under SpecTrans *)

\* the rank the claim gives a floor name
C18_Rank(floor_name) ==
    CASE floor_name = "Basement" -> 0
      [] floor_name \in { "Ground Floor", "1st Floor" } -> 1
      [] floor_name = "2nd Floor" -> 2
      [] floor_name = "3rd Floor" -> 3
      [] OTHER -> 10

\* the place of the first input room on the floor
C18_FirstAppearance(floor_name) ==
    CHOOSE k \in 1..Len(tRooms) :
        /\ tRooms[k].floor = floor_name
        /\ \A j \in 1..(k - 1) : tRooms[j].floor # floor_name

\* C18: the Locations the transformer returns are in non-decreasing rank
\* (basement 0, ground and 1st 1, 2nd 2, 3rd 3, any other name 10), and
\* Locations of equal rank are in the order in which their floors first
\* appeared among the input rooms.
C18_SortedByRankStable ==
    tpc = "done" =>
        \A i, j \in 1..Len(tOut) :
            i < j =>
              \/ C18_Rank(tOut[i].location) < C18_Rank(tOut[j].location)
              \/ /\ C18_Rank(tOut[i].location) = C18_Rank(tOut[j].location)
                 /\ C18_FirstAppearance(tOut[i].location)
                      < C18_FirstAppearance(tOut[j].location)

\* the input had the floors 2nd, ground, 1st in this order; the two floors
\* of rank 1 came out first, in their input order
C18_Witness ==
    /\ tpc = "done"
    /\ [k \in 1..Len(tRooms) |-> tRooms[k].floor]
          = << "2nd Floor", "Ground Floor", "1st Floor" >>
    /\ [k \in 1..Len(tOut) |-> tOut[k].location]
          = << "Ground Floor", "1st Floor", "2nd Floor" >>

\* the living-area types of a room name
C19_Types(name) == NameKeywords(name) \cap { "living", "kitchen", "dining", "family" }

\* the two types are a pair of the adjacency table
C19_Adjacent(a, b) ==
    \E p \in 1..Len(connected_patterns) :
        { connected_patterns[p][1], connected_patterns[p][2] } = { a, b }

\* another room on the same floor has a type adjacent to a type of room k
C19_ConnectedOnFloor(k) ==
    \E j \in 1..Len(tRooms) :
        /\ j # k
        /\ tRooms[j].floor = tRooms[k].floor
        /\ \E a \in C19_Types(tRooms[k].base), b \in C19_Types(tRooms[j].base) :
               C19_Adjacent(a, b)

\* C19: a living/kitchen/dining/family room without extracted openings gets
\* the open wall instead of the door exactly when another room on the same
\* floor has an adjacent type; rooms on other floors and the room itself do
\* not count.
C19_OpenWallIffSameFloorPair ==
    tpc = "done" =>
        \A k \in 1..Len(tRooms) :
            (C19_Types(tRooms[k].base) # {} /\ "bedroom" \notin NameKeywords(tRooms[k].base))
            => /\ tRooms[k].openings # <<>>
               /\ tRooms[k].openings[1].type = "open_wall" <=> C19_ConnectedOnFloor(k)
               /\ tRooms[k].openings[1].type \in { "open_wall", "door" }

----------------------------------------------------------------------------
(* Claims about the candidate classification, checked under Spec *)

\* the candidate is in the list
C20_In(c, list) == \E k \in 1..Len(list) : list[k] = c

\* C20: a candidate whose name matches a reject pattern is neither accepted
\* nor sent to the classifier, keyword or not; a candidate with a keyword and
\* no reject pattern is accepted whatever the classifier does; the batch sent
\* to the classifier is the remaining candidates in input order, and the
\* classifier is called only when there are any.
C20_RejectAcceptAmbiguous ==
    (wpc \in { "calculate", "store", "finished" }
     /\ detected_format \in { "csv_table", "pdf_table" }) =>
        LET candidates == CollectCandidates(raw_data.body, 1, "")
        IN  /\ \A k \in 1..Len(candidates) :
                  LET c == candidates[k]
                  IN  /\ IsClearlyNotRoom(c.parts.name) =>
                            /\ ~C20_In(c, confirmed_rooms)
                            /\ ~C20_In(c, ambiguous_candidates)
                      /\ (~IsClearlyNotRoom(c.parts.name)
                          /\ IsRoomDataTraditional(c.parts.name)) =>
                            /\ C20_In(c, confirmed_rooms)
                            /\ ~C20_In(c, ambiguous_candidates)
            /\ ambiguous_candidates =
                  SelectSeq(candidates, LAMBDA c :
                      /\ ~IsClearlyNotRoom(c.parts.name)
                      /\ ~IsRoomDataTraditional(c.parts.name))
            /\ ai_response = NoAiCall <=> ambiguous_candidates = <<>>

\* a row named "Bedrooms" (reject pattern and keyword) and an ambiguous row:
\* the classifier was asked about the ambiguous row alone and accepted it
C20_Witness ==
    /\ wpc = "calculate"
    /\ detected_format \in { "csv_table", "pdf_table" }
    /\ raw_data.body = << "Bedrooms,120,10x12", "Nook,45,5x9" >>
    /\ Len(ambiguous_candidates) = 1
    /\ ambiguous_candidates[1].parts.name = "Nook"
    /\ ai_response = [kind |-> "list", answers |-> << TRUE >>]
    /\ confirmed_rooms = ambiguous_candidates

----------------------------------------------------------------------------
(* Claims about the opening estimator and the transformer's use of it *)

C22_Has(name, words) == NameKeywords(name) \cap words # {}

\* the window tier of an area (hundredths): 1 below 80, 2 from 80, 3 from
\* 150, 4 from 250
C22_Tier(area) ==
    IF area < 8000 THEN 1
    ELSE IF area < 15000 THEN 2
    ELSE IF area < 25000 THEN 3
    ELSE 4

\* the windows of a tier: one 3x3; one 4x3.5; two (living area: one 6x4);
\* three descending sizes (living area: 6x4 and 4x3.5)
C22_TierWindows(tier, living) ==
    CASE tier = 1 -> << Window(30, 30) >>
      [] tier = 2 -> << Window(40, 35) >>
      [] tier = 3 -> IF living THEN << Window(60, 40) >>
                     ELSE << Window(40, 35), Window(30, 30) >>
      [] OTHER -> IF living THEN << Window(60, 40), Window(40, 35) >>
                  ELSE << Window(40, 35), Window(40, 35), Window(30, 30) >>

\* the rows the statement lists, in its order, with "any other name" last
C22_StatedProfile(name, area) ==
    IF C22_Has(name, {"cabinet", "storage", "fixture", "pantry"}) THEN <<>>
    ELSE IF C22_Has(name, {"bedroom", "office", "study"})
      THEN << Door(30, 68) >> \o C22_TierWindows(C22_Tier(area), FALSE)
    ELSE IF C22_Has(name, {"bathroom"})
      THEN << Door(25, 68) >> \o (IF area > 5000 THEN << Window(20, 25) >> ELSE <<>>)
    ELSE IF C22_Has(name, {"closet"}) THEN << Door(25, 68) >>
    ELSE IF C22_Has(name, {"hall", "corridor"})
      THEN (IF area > 8000 THEN C22_TierWindows(C22_Tier(area), FALSE) ELSE <<>>)
    ELSE << Door(30, 68) >> \o C22_TierWindows(C22_Tier(area), FALSE)

\* the rows of the table with shelf and rack in the first row and the
\* living-area row before hall/corridor; the call names no other room, so
\* the living-area row gives its door
C22_TableProfile(name, area) ==
    IF C22_Has(name, {"cabinet", "storage", "shelf", "rack", "fixture", "pantry"})
      THEN <<>>
    ELSE IF C22_Has(name, {"bedroom", "office", "study"})
      THEN << Door(30, 68) >> \o C22_TierWindows(C22_Tier(area), FALSE)
    ELSE IF C22_Has(name, {"bathroom"})
      THEN << Door(25, 68) >> \o (IF area > 5000 THEN << Window(20, 25) >> ELSE <<>>)
    ELSE IF C22_Has(name, {"closet"}) THEN << Door(25, 68) >>
    ELSE IF C22_Has(name, {"living", "kitchen", "dining", "family"})
      THEN << Door(40, 68) >> \o C22_TierWindows(C22_Tier(area), TRUE)
    ELSE IF C22_Has(name, {"hall", "corridor"})
      THEN (IF area > 8000 THEN C22_TierWindows(C22_Tier(area), FALSE) ELSE <<>>)
    ELSE << Door(30, 68) >> \o C22_TierWindows(C22_Tier(area), FALSE)

----------------------------------------------------------------------------
(* Claims about the transformer's failure paths and grouping *)

\* the room record has missing or malformed raw dimensions
C23_Malformed(room) ==
    \/ "raw_dimensions" \notin room.keys
    \/ ~IsNum(room.raw_dimensions.length)
    \/ ~IsNum(room.raw_dimensions.height)

\* the output holds, under the room's floor, a record of the room's name
\* that is the per-room fallback record (flag TRUE) or a record calculated
\* from the room's own floor area (flag FALSE)
C23_InOutput(room, fallback) ==
    \E l \in 1..Len(tOut) :
        /\ tOut[l].location = (IF "floor" \in room.keys THEN room.floor ELSE "1st Floor")
        /\ \E r \in 1..Len(tOut[l].rooms) :
             /\ tOut[l].rooms[r].name = room.name
             /\ IF fallback
                  THEN tOut[l].rooms[r] = FallbackRoomMeasurements(room.name)
                  ELSE tOut[l].rooms[r].measurements.floor_area_sqft
                         = room.raw_dimensions.area.v

\* C23: a failure while one room is processed in the transformer (missing
\* or malformed raw dimensions, met in the opening estimation or in the
\* calculation) gives the per-room fallback record for that room only, and
\* every other room of the input is calculated from its own data and is in
\* the output.
C23_FailureStaysInItsRoom ==
    tpc = "done" =>
        \A k \in 1..Len(tRooms) :
            C23_InOutput(tRooms[k], C23_Malformed(tRooms[k]))

\* C24: transform_to_final_structure returns the canned Location for an
\* empty room list and for an input on which it fails, and never returns an
\* empty list.
C24_CannedForEmptyOrFailed ==
    tpc = "done" =>
        /\ tOut # <<>>
        /\ tRooms = <<>> => tOut = FallbackStructure
        /\ (\E k \in 1..Len(tRooms) : C23_Malformed(tRooms[k]) /\ tRooms[k].openings = <<>>)
              => tOut = FallbackStructure

\* C24, amended: transform_to_final_structure returns the canned Location
\* for an input on which it fails and an empty list for an empty room list;
\* the check of process_to_final_format turns the empty list into the canned
\* Location, so what the engine returns is never empty.
C24_CannedForFailedEmptyForEmpty ==
    tpc = "done" =>
        /\ tRooms = <<>> =>
              (tOut = <<>> /\ ValidatedOrFallback(tOut) = FallbackStructure)
        /\ (\E k \in 1..Len(tRooms) : C23_Malformed(tRooms[k]) /\ tRooms[k].openings = <<>>)
              => tOut = FallbackStructure
        /\ ValidatedOrFallback(tOut) # <<>>

\* the call on the empty room list has returned the empty list
C24_Witness ==
    /\ tpc = "done"
    /\ tRooms = <<>>
    /\ tOut = <<>>

RECURSIVE C30_TotalRooms(_)
C30_TotalRooms(locations) ==
    IF locations = <<>> THEN 0
    ELSE Len(Head(locations).rooms) + C30_TotalRooms(Tail(locations))

\* the floor the room belongs to: its floor, "1st Floor" when it has none
C30_Floor(room) == IF "floor" \in room.keys THEN room.floor ELSE "1st Floor"

\* no room's pass met an exception: no room without openings has missing
\* or malformed dimensions
C30_NoException ==
    ~\E k \in 1..Len(tRooms) : C23_Malformed(tRooms[k]) /\ tRooms[k].openings = <<>>

\* C30: when transform_to_final_structure meets no exception, the rooms of
\* all output Locations together are as many as the input rooms, each room
\* is under the Location named by its floor ("1st Floor" when the floor is
\* absent), in input order, each Location name occurs once and no Location
\* has an empty rooms list.
C30_RoomsPartitionedByFloor ==
    (tpc = "done" /\ C30_NoException) =>
        /\ C30_TotalRooms(tOut) = Len(tRooms)
        /\ \A l \in 1..Len(tOut) :
             /\ tOut[l].rooms # <<>>
             /\ \A m \in 1..Len(tOut) : tOut[m].location = tOut[l].location => m = l
             /\ LET mine == SelectSeq(tRooms, LAMBDA room : C30_Floor(room) = tOut[l].location)
                IN  [r \in 1..Len(tOut[l].rooms) |-> tOut[l].rooms[r].name]
                      = [r \in 1..Len(mine) |-> mine[r].name]
        /\ \A k \in 1..Len(tRooms) :
             \E l \in 1..Len(tOut) : tOut[l].location = C30_Floor(tRooms[k])

\* a finished call on a room without a floor and a room of the 1st floor:
\* one Location "1st Floor" holds both
C30_Witness ==
    /\ tpc = "done"
    /\ C30_NoException
    /\ Len(tRooms) = 2
    /\ "floor" \notin tRooms[1].keys
    /\ tRooms[2].floor = "1st Floor"
    /\ Len(tOut) = 1
    /\ tOut[1].location = "1st Floor"
    /\ Len(tOut[1].rooms) = 2

----------------------------------------------------------------------------
(* Claims about the openings and the room blocks of the PDF parser *)

\* the destination holds "exterior" in some case
C25_NamesExterior(destination) == destination \in { "Exterior", "EXTERIOR" }

\* C25: every opening the PDF extractor makes has exactly one of
\* is_external and is_internal; with a destination it is external iff the
\* destination holds "exterior" in any case, without one a window is
\* external and a door or a missing wall internal.
C25_ExternalXorInternal ==
    ppc = "done" =>
        \A r \in 1..Len(pRooms) :
            \A o \in 1..Len(pRooms[r].measurements.openings) :
                LET opening == pRooms[r].measurements.openings[o]
                IN  /\ opening.is_external # opening.is_internal
                    /\ opening.opens_to # "" =>
                          (opening.is_external <=> C25_NamesExterior(opening.opens_to))
                    /\ opening.opens_to = "" =>
                          (opening.is_external <=> opening.type = "window")

\* a room with a window into the hallway (internal) and a missing wall to
\* the exterior (external)
C25_Witness ==
    /\ ppc = "done"
    /\ \E r \in 1..Len(pRooms) :
         LET openings == pRooms[r].measurements.openings
         IN  \E a, b \in 1..Len(openings) :
               /\ openings[a].type = "window" /\ openings[a].opens_to = "Hallway"
               /\ openings[a].is_internal
               /\ openings[b].type = "open_wall" /\ openings[b].opens_to = "Exterior"
               /\ openings[b].is_external

\* the block of a header at line i (the thirty lines from it) yields a
\* wall, a ceiling or a floor area
C26_BlockYieldsArea(i) ==
    \E k \in i..(IF i + 29 < Len(pText) THEN i + 29 ELSE Len(pText)) :
        \/ PdfWallArea(pText[k]) # <<>>
        \/ PdfCeilingArea(pText[k]) # <<>>
        \/ PdfFloorArea(pText[k]) # <<>>

\* C26: the PDF extractor discards a room block iff the block yields none
\* of a wall, ceiling or floor area; a block yielding at least one of them
\* (a ceiling area alone, say) is emitted, and no emitted room has all
\* three zero.
C26_DiscardedIffNoArea ==
    ppc = "done" =>
        /\ Len(pRooms) = Cardinality({ i \in 1..Len(pText) :
                            RoomWithHeight(pText[i]) # <<>> /\ C26_BlockYieldsArea(i) })
        /\ \A r \in 1..Len(pRooms) :
             \/ pRooms[r].measurements.wall_area_sqft # 0
             \/ pRooms[r].measurements.ceiling_area_sqft # 0
             \/ pRooms[r].measurements.floor_area_sqft # 0

----------------------------------------------------------------------------
(* Claims about the names the deduplicator leaves *)

\* C27: after _deduplicate_and_filter_rooms no two rooms of the same floor
\* have the same name, whatever the input list, also when a row's name
\* already ends in " #k" and meets a name the numbering makes.
C27_NamesUniquePerFloor ==
    dpc = "done" =>
        \A i, j \in 1..Len(dFinal) :
            (dFinal[i].floor = dFinal[j].floor /\ dFinal[i].name = dFinal[j].name)
               => i = j

----------------------------------------------------------------------------
(* Claims about the two modes of the CSV extractor and about the progress  *)
(* entry of parse_measurement_data                                          *)

\* the classifier was not reached or was not available: no candidate was
\* ambiguous, the service is in mock mode, or the call raised
C28_ClassifierUnavailable ==
    ai_response.kind \in { "not_called", "mock_mode", "raises" }

\* C28: with the classifier unavailable the batch extraction returns, for
\* every text, the room list the extraction without AI classification
\* returns, in the same order.
C28_BatchEqualsHeuristic ==
    (wpc = "calculate" /\ detected_format \in { "csv_table", "pdf_table" }
       /\ C28_ClassifierUnavailable)
      => intermediate_data = ExtractRoomDataHeuristic(raw_data)

\* the batch extraction of a text with a keyword room and an ambiguous row,
\* the classifier being in mock mode, has returned the keyword room
C28_Witness ==
    /\ wpc = "calculate"
    /\ detected_format = "csv_table"
    /\ ai_response.kind = "mock_mode"
    /\ ambiguous_candidates # <<>>
    /\ Len(intermediate_data) = 1
    /\ intermediate_data[1].name = "Kitchen"
    /\ intermediate_data[1].raw_dimensions.area = Num(12000)

\* C29: every call of parse_measurement_data with a session id comes to
\* its return, and the step that returns has recorded stage "completed"
\* with progress 100 for the session, on the normal path and on the
\* exception and timeout fallback paths alike.
C29_ReturnsWithCompleted ==
    /\ <>(mpc = "returned")
    /\ [][(mpc = "join" /\ mpc' = "returned")
            => (~returned'.raised /\ progress' = Progress("completed", 100))]_vars

\* the call has returned the legacy result after a timeout and the entry
\* reads "completed" 100
C29_Witness ==
    /\ mpc = "returned"
    /\ caught = "TimeoutError"
    /\ wpc = "extract"
    /\ progress = Progress("completed", 100)


============================================================================
